---- MODULE Spec2Model ----
(***************************************************************************)
(* SubScalpelMKV: the track selection and filename templating engine.      *)
(*                                                                         *)
(* Go strings are modelled as sequences of one-character strings, so that  *)
(* trimming, splitting, case folding and substring replacement are         *)
(* computed character by character as the Go code computes them.  Codec    *)
(* identifiers are only ever compared for equality (map lookups), and are  *)
(* kept as atomic strings.                                                 *)
(*                                                                         *)
(* Go randomises the order of every `range` over a map.  A function whose  *)
(* result depends on that order is modelled by the SET of results a call   *)
(* can return; the action that calls it picks one of them.                 *)
(***************************************************************************)
EXTENDS Integers, Sequences, FiniteSets, TLC

VARIABLES
    \* one call of model.MatchesLanguageFilter
    trackLanguage, filterLanguage, langResult,
    \* one call of model.MatchesFormatFilter
    codecId, formatFilter, formatResult,
    \* calls of util.MatchesTrackExclusion and util.MatchesTrackSelection
    track, selection, exclusionResult, selectionResult,
    \* one call of a selection or exclusion parser of package cli
    input, availableTracks, parsed,
    \* calls of util.BuildFileNameFromTemplate: a first one and a repetition
    \* with the same arguments
    inputFileName, namedTrack, template, outputFileName, repeatedFileName,
    \* one run of --extract or --batch: its flags and files, the position of
    \* processFile, and the paths it has computed
    batchMode, flagOutputDir, runFiles, runTracks, outputConfig, fileNo, stage, trackIdx,
    mksFile, mkdirAllCalls, destinations, fileOutcomes,
    \* one call of mkv.ProcessTracks: its jobs, its map of groups, the groups
    \* its range has not reached, the mkvextract calls made, the tracks
    \* reported as extracted, and its position
    jobs, jobsByInputFile, pendingFiles, extractCalls, extracted, successCount, tracksStage,
    \* one call of processFile or cli.ShowFileInfo: the input path and what
    \* os.Stat finds there, the tracks and the filter, the tracks selected, the
    \* external tools run so far, and the position of the call; the steps
    \* begun, the step that failed, the error returned, the extraction jobs
    \* and the state of the temporary .subtitles.mks file
    operation, inputPath, inputStat, fileTracks, fileSelection, selectedOriginalTracks,
    muxedTrackIds, toolCalls, fileStage, fileSteps, failedStep, fileError, fileJobs, tempFile,
    \* one batch: the loop that runs it (processBatch of package main or
    \* Processor.Process of package batch), its files, the calls of the
    \* per-file function made so far, the counters, the position and the
    \* exit code of the program
    batchLoop, mkvFiles, fileCalls, batchSuccessCount, batchErrorCount, batchStage, exitCode,
    \* one call of GetTrackInfo: whether the mkvmerge -J command fails, what
    \* it wrote to stdout, and what the call returned
    queryFails, queryOutput, trackInfoResult,
    \* one call of ExtractSubtitlesParallel: its arguments, the jobs whose
    \* mkvextract fails, the position of the calling goroutine, the two
    \* channels, the workers (how many wait on jobChan, which jobs are being
    \* extracted, how many have returned), the WaitGroup counter, the closing
    \* goroutine, the calls of ExtractSubtitles per job and the result
    parallelJobs, maxWorkersArg, failingJobs, parallelStage, maxWorkers, workersStarted, jobsSent,
    jobChan, jobChanClosed, resultChan, resultChanClosed, waitingWorkers, extracting,
    wg, closerStarted, extractions, results,
    \* one call of ProcessSelectionAndExclusion: its arguments, where it is,
    \* the questions asked so far with their answers and the items reported
    \* invalid, and the SelectionResult being built
    extractAll, promptTracks, promptStage, prompts, promptResult,
    \* a filter on its way from the parser that read it to processFile: what
    \* was typed, the tracks of the file, the parser that read it, the filter
    \* it produced, the string built from that filter and the filter parsed
    \* from the string
    typedInput, typedTracks, usedParser, confirmedFilter, filterString, appliedFilter,
    roundTripStage,
    \* the mux of CreateSubtitlesMKS: the mkvmerge process (the lines it is
    \* going to write to stderr, those it has written, whether it has
    \* exited), the stderr pipe, the goroutine that reads it into
    \* stderrOutput, the ticker goroutine, the position of the caller and the
    \* stderr text it has reported
    stderrToWrite, stderrWritten, processState, stderrPipe, stderrPipeClosed,
    stderrOutput, stderrReader, tickerGoroutine, muxStage, reportedStderr

languageVars == <<trackLanguage, filterLanguage, langResult>>
formatVars   == <<codecId, formatFilter, formatResult>>
matcherVars  == <<track, selection, exclusionResult, selectionResult>>
parserVars   == <<input, availableTracks, parsed>>
templateVars == <<inputFileName, namedTrack, template, outputFileName, repeatedFileName>>
outputVars   == <<batchMode, flagOutputDir, runFiles, runTracks, outputConfig, fileNo, stage,
                   trackIdx, mksFile, mkdirAllCalls, destinations, fileOutcomes>>
processTracksVars == <<jobs, jobsByInputFile, pendingFiles, extractCalls, extracted, successCount, tracksStage>>
processFileVars == <<operation, inputPath, inputStat, fileTracks, fileSelection, selectedOriginalTracks, muxedTrackIds, toolCalls, fileStage, fileSteps, failedStep, fileError, fileJobs, tempFile>>
batchVars == <<batchLoop, mkvFiles, fileCalls, batchSuccessCount, batchErrorCount, batchStage, exitCode>>
getTrackInfoVars == <<queryFails, queryOutput, trackInfoResult>>
parallelVars == <<parallelJobs, maxWorkersArg, failingJobs, parallelStage, maxWorkers, workersStarted, jobsSent, jobChan, jobChanClosed, resultChan, resultChanClosed, waitingWorkers, extracting, wg, closerStarted, extractions, results>>
promptVars == <<extractAll, promptTracks, promptStage, prompts, promptResult>>
roundTripVars == <<typedInput, typedTracks, usedParser, confirmedFilter, filterString, appliedFilter, roundTripStage>>
muxVars == <<stderrToWrite, stderrWritten, processState, stderrPipe, stderrPipeClosed, stderrOutput, stderrReader, tickerGoroutine, muxStage, reportedStderr>>
vars == <<languageVars, formatVars, matcherVars, parserVars, templateVars, outputVars, processTracksVars, processFileVars, batchVars, getTrackInfoVars, parallelVars, promptVars, roundTripVars, muxVars>>

\* A result slot: empty until the call has returned, then the one value it
\* returned.
NoResult == <<>>
Returned(value) == <<value>>

(***************************************************************************)
(* Strings                                                                 *)
(***************************************************************************)

UpperLetters ==
    <<"A", "B", "C", "D", "E", "F", "G", "H", "I", "J", "K", "L", "M",
      "N", "O", "P", "Q", "R", "S", "T", "U", "V", "W", "X", "Y", "Z">>

LowerLetters ==
    <<"a", "b", "c", "d", "e", "f", "g", "h", "i", "j", "k", "l", "m",
      "n", "o", "p", "q", "r", "s", "t", "u", "v", "w", "x", "y", "z">>

LowerOf ==
    [c \in {UpperLetters[i] : i \in 1..26} |->
        LowerLetters[CHOOSE i \in 1..26 : UpperLetters[i] = c]]

UpperOf ==
    [c \in {LowerLetters[i] : i \in 1..26} |->
        UpperLetters[CHOOSE i \in 1..26 : LowerLetters[i] = c]]

\* unicode.ToLower on one character (letters A-Z; every other character of
\* the model's alphabet is its own lower case).
ToLowerChar(c) == IF c \in DOMAIN LowerOf THEN LowerOf[c] ELSE c

\* strings.ToLower
ToLower(s) == [i \in 1..Len(s) |-> ToLowerChar(s[i])]

\* strings.EqualFold: equality under simple case folding.
EqualFold(s, t) ==
    /\ Len(s) = Len(t)
    /\ \A i \in 1..Len(s) : ToLowerChar(s[i]) = ToLowerChar(t[i])

\* Every spelling of s that differs from it only in letter case.
CaseVariants(s) ==
    {t \in [1..Len(s) -> {s[i] : i \in 1..Len(s)} \cup
                         {UpperOf[s[i]] : i \in {j \in 1..Len(s) : s[j] \in DOMAIN UpperOf}}] :
        \A i \in 1..Len(s) : ToLowerChar(t[i]) = ToLowerChar(s[i])}

\* strings.Split(s, sep) for a one-character separator: the pieces between
\* the separators, empty pieces included; one empty piece for the empty
\* string.
RECURSIVE Split(_, _)
Split(s, sep) ==
    IF \E i \in 1..Len(s) : s[i] = sep
    THEN LET first == CHOOSE i \in 1..Len(s) :
                        s[i] = sep /\ \A j \in 1..(i - 1) : s[j] # sep
         IN  <<SubSeq(s, 1, first - 1)>> \o Split(SubSeq(s, first + 1, Len(s)), sep)
    ELSE <<s>>

\* strings.Join(parts, sep)
RECURSIVE Join(_, _)
Join(parts, sep) ==
    IF Len(parts) = 0 THEN <<>>
    ELSE IF Len(parts) = 1 THEN parts[1]
    ELSE parts[1] \o sep \o Join(Tail(parts), sep)

\* strings.Trim(s, cutset): s without its leading and trailing characters
\* that are in cutset.
Trim(s, cutset) ==
    LET kept == {i \in 1..Len(s) : s[i] \notin cutset}
    IN  IF kept = {} THEN <<>>
        ELSE SubSeq(s, CHOOSE i \in kept : \A j \in kept : i <= j,
                       CHOOSE i \in kept : \A j \in kept : i >= j)

\* The white space of the model's alphabet.
WhiteSpace == {" ", "\t"}

\* strings.TrimSpace
TrimSpace(s) == Trim(s, WhiteSpace)

Digits == <<"0", "1", "2", "3", "4", "5", "6", "7", "8", "9">>

IsDigit(c) == \E d \in 1..10 : Digits[d] = c

DigitValue(c) == (CHOOSE d \in 1..10 : Digits[d] = c) - 1

\* The value of a string of digits.
RECURSIVE DigitsValue(_)
DigitsValue(digits) ==
    IF digits = <<>> THEN 0
    ELSE 10 * DigitsValue(SubSeq(digits, 1, Len(digits) - 1))
            + DigitValue(digits[Len(digits)])

\* A string of digits without its leading zeros.
RECURSIVE StripZeros(_)
StripZeros(digits) ==
    IF digits # <<>> /\ digits[1] = "0" THEN StripZeros(Tail(digits)) ELSE digits

\* a <= b for two strings of digits of the same length.
RECURSIVE DigitsLeq(_, _)
DigitsLeq(a, b) ==
    IF a = <<>> THEN TRUE
    ELSE IF DigitValue(a[1]) < DigitValue(b[1]) THEN TRUE
    ELSE IF DigitValue(a[1]) > DigitValue(b[1]) THEN FALSE
    ELSE DigitsLeq(Tail(a), Tail(b))

\* 2^63 - 1 and 2^63, the largest magnitudes of a positive and of a
\* negative int.
MaxIntDigits ==
    <<"9", "2", "2", "3", "3", "7", "2", "0", "3", "6", "8", "5", "4", "7", "7",
      "5", "8", "0", "7">>
MinIntDigits ==
    <<"9", "2", "2", "3", "3", "7", "2", "0", "3", "6", "8", "5", "4", "7", "7",
      "5", "8", "0", "8">>

\* strconv.Atoi: `ok` is err == nil, `value` the int returned.  The string
\* must be an optional sign followed by at least one decimal digit, and the
\* number must fit an int (64 bits); otherwise Atoi returns an error.
\* (`value` is computed in the model checker's integers: the inputs of the
\* model keep the numbers that fit to at most nine digits.)
Atoi(s) ==
    LET signed   == s # <<>> /\ s[1] \in {"+", "-"}
        negative == s # <<>> /\ s[1] = "-"
        digits   == IF signed THEN Tail(s) ELSE s
        syntaxOk == digits # <<>> /\ \A i \in 1..Len(digits) : IsDigit(digits[i])
        magnitude == StripZeros(digits)
        limit    == IF negative THEN MinIntDigits ELSE MaxIntDigits
        inRange  == \/ Len(magnitude) < Len(limit)
                    \/ Len(magnitude) = Len(limit) /\ DigitsLeq(magnitude, limit)
    IN  IF syntaxOk /\ inRange
        THEN [ok |-> TRUE,
              value |-> IF negative THEN 0 - DigitsValue(magnitude)
                        ELSE DigitsValue(magnitude)]
        ELSE [ok |-> FALSE, value |-> 0]

(***************************************************************************)
(* Language code table (ISO 639-1 to ISO 639-2/B)                          *)
(***************************************************************************)

LanguageCodeMapping ==
    <<"e", "n">> :> <<"e", "n", "g">> @@ <<"e", "s">> :> <<"s", "p", "a">> @@ <<"f", "r">> :> <<"f", "r", "e">> @@
    <<"d", "e">> :> <<"g", "e", "r">> @@ <<"i", "t">> :> <<"i", "t", "a">> @@ <<"p", "t">> :> <<"p", "o", "r">> @@
    <<"r", "u">> :> <<"r", "u", "s">> @@ <<"j", "a">> :> <<"j", "p", "n">> @@ <<"k", "o">> :> <<"k", "o", "r">> @@
    <<"z", "h">> :> <<"c", "h", "i">> @@ <<"a", "r">> :> <<"a", "r", "a">> @@ <<"h", "i">> :> <<"h", "i", "n">> @@
    <<"t", "h">> :> <<"t", "h", "a">> @@ <<"v", "i">> :> <<"v", "i", "e">> @@ <<"t", "r">> :> <<"t", "u", "r">> @@
    <<"p", "l">> :> <<"p", "o", "l">> @@ <<"n", "l">> :> <<"d", "u", "t">> @@ <<"s", "v">> :> <<"s", "w", "e">> @@
    <<"d", "a">> :> <<"d", "a", "n">> @@ <<"n", "o">> :> <<"n", "o", "r">> @@ <<"f", "i">> :> <<"f", "i", "n">> @@
    <<"c", "s">> :> <<"c", "z", "e">> @@ <<"h", "u">> :> <<"h", "u", "n">> @@ <<"r", "o">> :> <<"r", "u", "m">> @@
    <<"b", "g">> :> <<"b", "u", "l">> @@ <<"h", "r">> :> <<"h", "r", "v">> @@ <<"s", "k">> :> <<"s", "l", "o">> @@
    <<"s", "l">> :> <<"s", "l", "v">> @@ <<"e", "t">> :> <<"e", "s", "t">> @@ <<"l", "v">> :> <<"l", "a", "v">> @@
    <<"l", "t">> :> <<"l", "i", "t">> @@ <<"e", "l">> :> <<"g", "r", "e">> @@ <<"h", "e">> :> <<"h", "e", "b">> @@
    <<"f", "a">> :> <<"p", "e", "r">> @@ <<"u", "r">> :> <<"u", "r", "d">> @@ <<"b", "n">> :> <<"b", "e", "n">> @@
    <<"t", "a">> :> <<"t", "a", "m">> @@ <<"t", "e">> :> <<"t", "e", "l">> @@ <<"m", "l">> :> <<"m", "a", "l">> @@
    <<"k", "n">> :> <<"k", "a", "n">> @@ <<"g", "u">> :> <<"g", "u", "j">> @@ <<"p", "a">> :> <<"p", "a", "n">> @@
    <<"m", "r">> :> <<"m", "a", "r">> @@ <<"n", "e">> :> <<"n", "e", "p">> @@ <<"s", "i">> :> <<"s", "i", "n">> @@
    <<"m", "y">> :> <<"b", "u", "r">> @@ <<"k", "m">> :> <<"k", "h", "m">> @@ <<"l", "o">> :> <<"l", "a", "o">> @@
    <<"k", "a">> :> <<"g", "e", "o">> @@ <<"a", "m">> :> <<"a", "m", "h">> @@ <<"s", "w">> :> <<"s", "w", "a">> @@
    <<"z", "u">> :> <<"z", "u", "l">> @@ <<"a", "f">> :> <<"a", "f", "r">> @@ <<"i", "s">> :> <<"i", "c", "e">> @@
    <<"g", "a">> :> <<"g", "l", "e">> @@ <<"c", "y">> :> <<"w", "e", "l">> @@ <<"e", "u">> :> <<"b", "a", "q">> @@
    <<"c", "a">> :> <<"c", "a", "t">> @@ <<"g", "l">> :> <<"g", "l", "g">> @@ <<"m", "t">> :> <<"m", "l", "t">> @@
    <<"s", "q">> :> <<"a", "l", "b">> @@ <<"m", "k">> :> <<"m", "a", "c">> @@ <<"b", "e">> :> <<"b", "e", "l">> @@
    <<"u", "k">> :> <<"u", "k", "r">> @@ <<"a", "a">> :> <<"a", "a", "r">> @@ <<"a", "b">> :> <<"a", "b", "k">> @@
    <<"a", "e">> :> <<"a", "v", "e">> @@ <<"a", "k">> :> <<"a", "k", "a">> @@ <<"a", "n">> :> <<"a", "r", "g">> @@
    <<"a", "s">> :> <<"a", "s", "m">> @@ <<"a", "v">> :> <<"a", "v", "a">> @@ <<"a", "y">> :> <<"a", "y", "m">> @@
    <<"a", "z">> :> <<"a", "z", "e">> @@ <<"b", "a">> :> <<"b", "a", "k">> @@ <<"b", "h">> :> <<"b", "i", "h">> @@
    <<"b", "i">> :> <<"b", "i", "s">> @@ <<"b", "m">> :> <<"b", "a", "m">> @@ <<"b", "o">> :> <<"t", "i", "b">> @@
    <<"b", "r">> :> <<"b", "r", "e">> @@ <<"b", "s">> :> <<"b", "o", "s">> @@ <<"c", "e">> :> <<"c", "h", "e">> @@
    <<"c", "h">> :> <<"c", "h", "a">> @@ <<"c", "o">> :> <<"c", "o", "s">> @@ <<"c", "r">> :> <<"c", "r", "e">> @@
    <<"c", "u">> :> <<"c", "h", "u">> @@ <<"c", "v">> :> <<"c", "h", "v">> @@ <<"d", "v">> :> <<"d", "i", "v">> @@
    <<"d", "z">> :> <<"d", "z", "o">> @@ <<"e", "e">> :> <<"e", "w", "e">> @@ <<"e", "o">> :> <<"e", "p", "o">> @@
    <<"f", "f">> :> <<"f", "u", "l">> @@ <<"f", "j">> :> <<"f", "i", "j">> @@ <<"f", "o">> :> <<"f", "a", "o">> @@
    <<"f", "y">> :> <<"f", "r", "y">> @@ <<"g", "d">> :> <<"g", "l", "a">> @@ <<"g", "n">> :> <<"g", "r", "n">> @@
    <<"g", "v">> :> <<"g", "l", "v">> @@ <<"h", "a">> :> <<"h", "a", "u">> @@ <<"h", "o">> :> <<"h", "m", "o">> @@
    <<"h", "t">> :> <<"h", "a", "t">> @@ <<"h", "z">> :> <<"h", "e", "r">> @@ <<"i", "a">> :> <<"i", "n", "a">> @@
    <<"i", "d">> :> <<"i", "n", "d">> @@ <<"i", "e">> :> <<"i", "l", "e">> @@ <<"i", "g">> :> <<"i", "b", "o">> @@
    <<"i", "i">> :> <<"i", "i", "i">> @@ <<"i", "k">> :> <<"i", "p", "k">> @@ <<"i", "o">> :> <<"i", "d", "o">> @@
    <<"i", "u">> :> <<"i", "k", "u">> @@ <<"j", "v">> :> <<"j", "a", "v">> @@ <<"k", "g">> :> <<"k", "o", "n">> @@
    <<"k", "i">> :> <<"k", "i", "k">> @@ <<"k", "j">> :> <<"k", "u", "a">> @@ <<"k", "k">> :> <<"k", "a", "z">> @@
    <<"k", "l">> :> <<"k", "a", "l">> @@ <<"k", "r">> :> <<"k", "a", "u">> @@ <<"k", "s">> :> <<"k", "a", "s">> @@
    <<"k", "u">> :> <<"k", "u", "r">> @@ <<"k", "v">> :> <<"k", "o", "m">> @@ <<"k", "w">> :> <<"c", "o", "r">> @@
    <<"k", "y">> :> <<"k", "i", "r">> @@ <<"l", "a">> :> <<"l", "a", "t">> @@ <<"l", "b">> :> <<"l", "t", "z">> @@
    <<"l", "g">> :> <<"l", "u", "g">> @@ <<"l", "i">> :> <<"l", "i", "m">> @@ <<"l", "n">> :> <<"l", "i", "n">> @@
    <<"l", "u">> :> <<"l", "u", "b">> @@ <<"m", "g">> :> <<"m", "l", "g">> @@ <<"m", "h">> :> <<"m", "a", "h">> @@
    <<"m", "i">> :> <<"m", "a", "o">> @@ <<"m", "n">> :> <<"m", "o", "n">> @@ <<"m", "o">> :> <<"m", "o", "l">> @@
    <<"m", "s">> :> <<"m", "a", "y">> @@ <<"n", "a">> :> <<"n", "a", "u">> @@ <<"n", "b">> :> <<"n", "o", "b">> @@
    <<"n", "d">> :> <<"n", "d", "e">> @@ <<"n", "g">> :> <<"n", "d", "o">> @@ <<"n", "n">> :> <<"n", "n", "o">> @@
    <<"n", "r">> :> <<"n", "b", "l">> @@ <<"n", "v">> :> <<"n", "a", "v">> @@ <<"n", "y">> :> <<"n", "y", "a">> @@
    <<"o", "c">> :> <<"o", "c", "i">> @@ <<"o", "j">> :> <<"o", "j", "i">> @@ <<"o", "m">> :> <<"o", "r", "m">> @@
    <<"o", "r">> :> <<"o", "r", "i">> @@ <<"o", "s">> :> <<"o", "s", "s">> @@ <<"p", "i">> :> <<"p", "l", "i">> @@
    <<"p", "s">> :> <<"p", "u", "s">> @@ <<"q", "u">> :> <<"q", "u", "e">> @@ <<"r", "m">> :> <<"r", "o", "h">> @@
    <<"r", "n">> :> <<"r", "u", "n">> @@ <<"r", "w">> :> <<"k", "i", "n">> @@ <<"s", "a">> :> <<"s", "a", "n">> @@
    <<"s", "c">> :> <<"s", "r", "d">> @@ <<"s", "d">> :> <<"s", "n", "d">> @@ <<"s", "e">> :> <<"s", "m", "e">> @@
    <<"s", "g">> :> <<"s", "a", "g">> @@ <<"s", "h">> :> <<"s", "r", "p">> @@ <<"s", "m">> :> <<"s", "m", "o">> @@
    <<"s", "n">> :> <<"s", "n", "a">> @@ <<"s", "o">> :> <<"s", "o", "m">> @@ <<"s", "r">> :> <<"s", "r", "p">> @@
    <<"s", "s">> :> <<"s", "s", "w">> @@ <<"s", "t">> :> <<"s", "o", "t">> @@ <<"s", "u">> :> <<"s", "u", "n">> @@
    <<"t", "g">> :> <<"t", "g", "k">> @@ <<"t", "i">> :> <<"t", "i", "r">> @@ <<"t", "k">> :> <<"t", "u", "k">> @@
    <<"t", "l">> :> <<"t", "g", "l">> @@ <<"t", "n">> :> <<"t", "s", "n">> @@ <<"t", "o">> :> <<"t", "o", "n">> @@
    <<"t", "s">> :> <<"t", "s", "o">> @@ <<"t", "t">> :> <<"t", "a", "t">> @@ <<"t", "w">> :> <<"t", "w", "i">> @@
    <<"t", "y">> :> <<"t", "a", "h">> @@ <<"u", "g">> :> <<"u", "i", "g">> @@ <<"u", "z">> :> <<"u", "z", "b">> @@
    <<"v", "e">> :> <<"v", "e", "n">> @@ <<"v", "o">> :> <<"v", "o", "l">> @@ <<"w", "a">> :> <<"w", "l", "n">> @@
    <<"w", "o">> :> <<"w", "o", "l">> @@ <<"x", "h">> :> <<"x", "h", "o">> @@ <<"y", "i">> :> <<"y", "i", "d">> @@
    <<"y", "o">> :> <<"y", "o", "r">> @@ <<"z", "a">> :> <<"z", "h", "a">>

\* The 2-letter keys whose 3-letter value equals the filter under case
\* folding: the entries at which the range loop of MatchesLanguageFilter
\* can return.
ReverseLookup(filterLang) ==
    {twoLetter \in DOMAIN LanguageCodeMapping :
        EqualFold(filterLang, LanguageCodeMapping[twoLetter])}

\* model.MatchesLanguageFilter: the set of results one call can return.
\* The loop over the map returns at the FIRST entry whose value equals the
\* filter, so when several keys share that value the result is the
\* comparison with whichever of them the iteration visits first.
MatchesLanguageFilter(trackLang, filterLang) ==
    IF filterLang = <<>> THEN {TRUE}
    ELSE IF EqualFold(trackLang, filterLang) THEN {TRUE}
    ELSE IF Len(filterLang) = 2 /\ ToLower(filterLang) \in DOMAIN LanguageCodeMapping
         THEN {EqualFold(trackLang, LanguageCodeMapping[ToLower(filterLang)])}
    ELSE IF Len(filterLang) = 3 /\ ReverseLookup(filterLang) # {}
         THEN {EqualFold(trackLang, twoLetter) : twoLetter \in ReverseLookup(filterLang)}
    ELSE {FALSE}

(***************************************************************************)
(* Subtitle format table                                                   *)
(***************************************************************************)

SubtitleExtensionByCodec ==
    "S_TEXT/UTF8"   :> <<"s", "r", "t">> @@
    "S_TEXT/ASS"    :> <<"a", "s", "s">> @@
    "S_TEXT/SSA"    :> <<"s", "s", "a">> @@
    "S_TEXT/WEBVTT" :> <<"v", "t", "t">> @@
    "S_TEXT/USF"    :> <<"u", "s", "f">> @@
    "S_ASS"         :> <<"a", "s", "s">> @@
    "S_SSA"         :> <<"s", "s", "a">> @@
    "S_HDMV/PGS"    :> <<"s", "u", "p">> @@
    "S_VOBSUB"      :> <<"s", "u", "b">> @@
    "S_DVBSUB"      :> <<"s", "u", "b">> @@
    "S_IMAGE/BMP"   :> <<"b", "m", "p">> @@
    "S_KATE"        :> <<"k", "a", "t", "e">> @@
    "S_TEXT/PLAIN"  :> <<"t", "x", "t">> @@
    "S_HDMV/TEXTST" :> <<"s", "u", "p">>

\* model.GetSubtitleFormatFromCodec
GetSubtitleFormatFromCodec(codec) ==
    IF codec \in DOMAIN SubtitleExtensionByCodec
    THEN SubtitleExtensionByCodec[codec]
    ELSE <<"s", "r", "t">>

\* MatchesFormatFilter comparing with == instead of strings.EqualFold.
MatchesFormatFilterCaseSensitive(codec, filter) ==
    IF filter = <<>> THEN TRUE
    ELSE GetSubtitleFormatFromCodec(codec) = filter

\* model.MatchesFormatFilter
MatchesFormatFilter(codec, filter) ==
    IF filter = <<>> THEN TRUE
    ELSE EqualFold(GetSubtitleFormatFromCodec(codec), filter)

(***************************************************************************)
(* Track matcher                                                           *)
(***************************************************************************)

\* The loop `for _, langCode := range codes { if MatchesLanguageFilter(...)
\* { return true } }`: TRUE when it can return true, FALSE when it can run
\* to its end.
LanguageLoop(trackLang, codes) ==
    {TRUE : i \in {j \in 1..Len(codes) :
                      TRUE \in MatchesLanguageFilter(trackLang, codes[j])}}
    \cup
    {FALSE : x \in {y \in {0} : \A j \in 1..Len(codes) :
                      FALSE \in MatchesLanguageFilter(trackLang, codes[j])}}

\* The loop over the track numbers of a filter.
NumberLoop(number, trackNumbers) ==
    \E i \in 1..Len(trackNumbers) : number = trackNumbers[i]

\* The loop over the format filters.
FormatLoop(codec, formatFilters) ==
    \E i \in 1..Len(formatFilters) : MatchesFormatFilter(codec, formatFilters[i])

\* No language, number or format in a filter.
NoCriteria(filter) ==
    /\ Len(filter.LanguageCodes) = 0
    /\ Len(filter.TrackNumbers) = 0
    /\ Len(filter.FormatFilters) = 0

\* util.MatchesTrackExclusion: the set of results one call can return.
MatchesTrackExclusion(t, exclusion) ==
    IF NoCriteria(exclusion) THEN {FALSE}
    ELSE IF NumberLoop(t.Number, exclusion.TrackNumbers) THEN {TRUE}
    ELSE {languageMatched \/ FormatLoop(t.CodecId, exclusion.FormatFilters) :
            languageMatched \in LanguageLoop(t.Language, exclusion.LanguageCodes)}

\* What MatchesTrackSelection returns once the track was found not excluded.
InclusionResults(t, sel) ==
    IF NoCriteria(sel) THEN {TRUE}
    ELSE IF NumberLoop(t.Number, sel.TrackNumbers) THEN {TRUE}
    ELSE {languageMatched \/ FormatLoop(t.CodecId, sel.FormatFilters) :
            languageMatched \in LanguageLoop(t.Language, sel.LanguageCodes)}

\* util.MatchesTrackSelection: the set of results one call can return.
MatchesTrackSelection(t, sel) ==
    UNION {IF excluded THEN {FALSE} ELSE InclusionResults(t, sel) :
            excluded \in MatchesTrackExclusion(t, sel.Exclusions)}

(***************************************************************************)
(* Selection parser                                                        *)
(***************************************************************************)

\* The language test of the parsers: a 2-letter key of the language table,
\* or a 3-letter value of it, in any letter case.
IsValidLanguage(item) ==
    IF Len(item) = 2 THEN ToLower(item) \in DOMAIN LanguageCodeMapping
    ELSE IF Len(item) = 3
         THEN \E twoLetter \in DOMAIN LanguageCodeMapping :
                  EqualFold(item, LanguageCodeMapping[twoLetter])
    ELSE FALSE

\* The format test of the parsers: the lower-cased item is an extension of
\* the format table.
IsValidFormat(item) ==
    \E codec \in DOMAIN SubtitleExtensionByCodec :
        ToLower(item) = SubtitleExtensionByCodec[codec]

\* What the parsers have collected: the three filter lists, and the items
\* reported as invalid (returned by the validating parsers, printed as
\* warnings by the others).
EmptyParse ==
    [LanguageCodes |-> <<>>, TrackNumbers |-> <<>>, FormatFilters |-> <<>>,
     reported |-> <<>>]

\* The parsers' loop body without the track number branch.
ParseItemNoNumbers(acc, rawItem, validate, available) ==
    LET item == TrimSpace(rawItem)
    IN  IF item = <<>> THEN acc
        ELSE IF IsValidLanguage(item)
             THEN [acc EXCEPT !.LanguageCodes = Append(@, item)]
        ELSE IF IsValidFormat(item)
             THEN [acc EXCEPT !.FormatFilters = Append(@, ToLower(item))]
        ELSE [acc EXCEPT !.reported = Append(@, item)]

\* The body of the parsers' loop over the comma-separated items: trim,
\* skip an empty item, then try track number, language, format in that
\* order.  `validate` is TRUE in the ...WithValidation parsers, which accept
\* a number only if it is in `available`.
ParseItem(acc, rawItem, validate, available) ==
    LET item == TrimSpace(rawItem)
        number == Atoi(item)
    IN  IF item = <<>> THEN acc
        ELSE IF number.ok
             THEN IF ~validate \/ \E i \in 1..Len(available) : number.value = available[i]
                  THEN [acc EXCEPT !.TrackNumbers = Append(@, number.value)]
                  ELSE [acc EXCEPT !.reported = Append(@, item)]
        ELSE IF IsValidLanguage(item)
             THEN [acc EXCEPT !.LanguageCodes = Append(@, item)]
        ELSE IF IsValidFormat(item)
             THEN [acc EXCEPT !.FormatFilters = Append(@, ToLower(item))]
        ELSE [acc EXCEPT !.reported = Append(@, item)]

\* The parsers' loop, ended at the first item reported invalid.
RECURSIVE ParseLoopStopAtInvalid(_, _, _, _)
ParseLoopStopAtInvalid(acc, items, validate, available) ==
    IF items = <<>> \/ acc.reported # <<>> THEN acc
    ELSE ParseLoopStopAtInvalid(ParseItem(acc, items[1], validate, available),
                                Tail(items), validate, available)

\* The parsers' loop `for _, item := range items`.
RECURSIVE ParseLoop(_, _, _, _)
ParseLoop(acc, items, validate, available) ==
    IF items = <<>> THEN acc
    ELSE ParseLoop(ParseItem(acc, items[1], validate, available),
                   Tail(items), validate, available)

\* cli.ParseTrackSelection
ParseTrackSelection(in) ==
    IF in = <<>> THEN EmptyParse
    ELSE ParseLoop(EmptyParse, Split(in, ","), FALSE, <<>>)

\* cli.ParseTrackExclusion
ParseTrackExclusion(in) ==
    IF in = <<>> THEN EmptyParse
    ELSE ParseLoop(EmptyParse, Split(in, ","), FALSE, <<>>)

\* ParseTrackSelectionWithValidation accepting every number.
ParseTrackSelectionUnchecked(in, available) ==
    IF in = <<>> THEN EmptyParse
    ELSE ParseLoop(EmptyParse, Split(in, ","), FALSE, available)

\* cli.ParseTrackSelectionWithValidation
ParseTrackSelectionWithValidation(in, available) ==
    IF in = <<>> THEN EmptyParse
    ELSE ParseLoop(EmptyParse, Split(in, ","), TRUE, available)

\* cli.ParseTrackExclusionWithValidation
ParseTrackExclusionWithValidation(in, available) ==
    IF in = <<>> THEN EmptyParse
    ELSE ParseLoop(EmptyParse, Split(in, ","), TRUE, available)

(***************************************************************************)
(* Filename template engine                                                *)
(***************************************************************************)

\* strings.ReplaceAll(s, old, new) for a non-empty old: the non-overlapping
\* occurrences of old, found from the left, replaced by new.
RECURSIVE ReplaceAll(_, _, _)
ReplaceAll(s, old, new) ==
    LET starts == {i \in 1..(Len(s) - Len(old) + 1) :
                      s[i] = old[1] /\ SubSeq(s, i, i + Len(old) - 1) = old}
    IN  IF starts = {} THEN s
        ELSE LET first == CHOOSE i \in starts : \A j \in starts : i <= j
             IN  SubSeq(s, 1, first - 1) \o new
                    \o ReplaceAll(SubSeq(s, first + Len(old), Len(s)), old, new)

\* strings.TrimSuffix
TrimSuffix(s, suffix) ==
    IF Len(suffix) <= Len(s) /\ SubSeq(s, Len(s) - Len(suffix) + 1, Len(s)) = suffix
    THEN SubSeq(s, 1, Len(s) - Len(suffix))
    ELSE s

\* filepath.Base with "/" as the path separator: the last element of the
\* path, trailing separators removed; "." for the empty path and "/" for a
\* path of separators only.
Base(path) ==
    LET stripped == LET kept == {i \in 1..Len(path) : path[i] # "/"}
                    IN  IF kept = {} THEN <<>>
                        ELSE SubSeq(path, 1, CHOOSE i \in kept : \A j \in kept : i >= j)
        slashes == {i \in 1..Len(stripped) : stripped[i] = "/"}
    IN  IF path = <<>> THEN <<".">>
        ELSE IF stripped = <<>> THEN <<"/">>
        ELSE IF slashes = {} THEN stripped
        ELSE SubSeq(stripped, (CHOOSE i \in slashes : \A j \in slashes : i >= j) + 1,
                    Len(stripped))

\* filepath.Ext: the suffix beginning at the last dot of the last element of
\* the path, empty when that element has no dot.
Ext(path) ==
    LET slashes == {i \in 1..Len(path) : path[i] = "/"}
        from == IF slashes = {} THEN 1
                ELSE (CHOOSE i \in slashes : \A j \in slashes : i >= j) + 1
        dots == {i \in from..Len(path) : path[i] = "."}
    IN  IF dots = {} THEN <<>>
        ELSE SubSeq(path, CHOOSE i \in dots : \A j \in dots : i >= j, Len(path))

\* The decimal digits of a natural number.
RECURSIVE Itoa(_)
Itoa(n) == IF n < 10 THEN <<Digits[n + 1]>> ELSE Itoa(n \div 10) \o <<Digits[(n % 10) + 1]>>

\* fmt.Sprintf("%03d", n): the number in decimal, padded with zeros after
\* the sign to a width of 3.
Sprintf03d(n) ==
    LET sign == IF n < 0 THEN <<"-">> ELSE <<>>
        digits == Itoa(IF n < 0 THEN 0 - n ELSE n)
        pad == 3 - Len(sign) - Len(digits)
    IN  sign \o [i \in 1..(IF pad > 0 THEN pad ELSE 0) |-> "0"] \o digits

\* model.DefaultOutputTemplate
DefaultOutputTemplate ==
    <<"{", "b", "a", "s", "e", "n", "a", "m", "e", "}", ".", "{", "l", "a", "n", "g", "u", "a", "g", "e", "}", ".", "{", "t", "r", "a", "c", "k", "n", "o", "}", ".", "{", "t", "r", "a", "c", "k", "n", "a", "m", "e", "}", ".", "{", "f", "o", "r", "c", "e", "d", "}", ".", "{", "d", "e", "f", "a", "u", "l", "t", "}", ".", "{", "e", "x", "t", "e", "n", "s", "i", "o", "n", "}">>

\* util.sanitizeFileName: "/", "\", ":" and "|" become "-"; "*", "?", the
\* double quote, "<" and ">" are removed; then spaces and dots are trimmed
\* from both ends.  (The replacements are single characters whose
\* substitutes contain none of them, so the order of the range over the map
\* of replacements does not show in the result.)
RECURSIVE SanitizeChars(_)
SanitizeChars(s) ==
    IF s = <<>> THEN <<>>
    ELSE (IF s[1] \in {"/", "\\", ":", "|"} THEN <<"-">>
          ELSE IF s[1] \in {"*", "?", "\"", "<", ">"} THEN <<>>
          ELSE <<s[1]>>) \o SanitizeChars(Tail(s))

sanitizeFileName(filename) ==
    IF filename = <<>> THEN <<>>
    ELSE Trim(SanitizeChars(filename), {" ", "."})

\* cleanupFileName leaving the name as it is.
cleanupFileNameOmitted(filename) == filename

\* util.cleanupFileName: split on ".", drop the empty parts, join with ".".
cleanupFileName(filename) ==
    Join(SelectSeq(Split(filename, "."), LAMBDA part : part # <<>>), <<".">>)

\* The extension BuildFileNameFromTemplate gives a track.
SubtitleExt(t) ==
    IF t.CodecId = "S_VOBSUB" THEN <<"s", "u", "b">>
    ELSE IF t.CodecId \in DOMAIN SubtitleExtensionByCodec
              /\ SubtitleExtensionByCodec[t.CodecId] # <<>>
         THEN SubtitleExtensionByCodec[t.CodecId]
    ELSE <<"s", "r", "t">>

\* The replacements map without its "{default}" entry.
ReplacementsWithoutDefault(inputFile, t) ==
    LET fileName == Base(inputFile)
        baseName == TrimSuffix(fileName, Ext(fileName))
    IN  <<"{", "b", "a", "s", "e", "n", "a", "m", "e", "}">>  :> baseName @@
        <<"{", "l", "a", "n", "g", "u", "a", "g", "e", "}">>  :> t.Language @@
        <<"{", "t", "r", "a", "c", "k", "n", "o", "}">>   :> Sprintf03d(t.Number) @@
        <<"{", "t", "r", "a", "c", "k", "n", "a", "m", "e", "}">> :> sanitizeFileName(t.TrackName) @@
        <<"{", "f", "o", "r", "c", "e", "d", "}">>    :> (IF t.Forced THEN <<"f", "o", "r", "c", "e", "d">> ELSE <<>>) @@
        <<"{", "e", "x", "t", "e", "n", "s", "i", "o", "n", "}">> :> SubtitleExt(t)

\* The replacements map of BuildFileNameFromTemplate: placeholder to value.
Replacements(inputFile, t) ==
    LET fileName == Base(inputFile)
        baseName == TrimSuffix(fileName, Ext(fileName))
    IN  <<"{", "b", "a", "s", "e", "n", "a", "m", "e", "}">>  :> baseName @@
        <<"{", "l", "a", "n", "g", "u", "a", "g", "e", "}">>  :> t.Language @@
        <<"{", "t", "r", "a", "c", "k", "n", "o", "}">>   :> Sprintf03d(t.Number) @@
        <<"{", "t", "r", "a", "c", "k", "n", "a", "m", "e", "}">> :> sanitizeFileName(t.TrackName) @@
        <<"{", "f", "o", "r", "c", "e", "d", "}">>    :> (IF t.Forced THEN <<"f", "o", "r", "c", "e", "d">> ELSE <<>>) @@
        <<"{", "d", "e", "f", "a", "u", "l", "t", "}">>   :> (IF t.Default THEN <<"d", "e", "f", "a", "u", "l", "t">> ELSE <<>>) @@
        <<"{", "e", "x", "t", "e", "n", "s", "i", "o", "n", "}">> :> SubtitleExt(t)

\* The loop `for placeholder, value := range replacements { result =
\* strings.ReplaceAll(result, placeholder, value) }`, whose order Go leaves
\* open: from the pairs <<result so far, placeholders not yet applied>>, the
\* set of results the loop can end with.
RECURSIVE ApplyReplacements(_, _)
ApplyReplacements(pending, values) ==
    IF \A p \in pending : p[2] = {} THEN {p[1] : p \in pending}
    ELSE ApplyReplacements(
            {<<ReplaceAll(p[1], placeholder, values[placeholder]), p[2] \ {placeholder}>> :
                <<p, placeholder>> \in {<<q, ph>> \in pending \X DOMAIN values : ph \in q[2]}},
            values)

\* util.BuildFileNameFromTemplate: the set of filenames one call can return.
BuildFileNameFromTemplate(inputFile, t, tpl) ==
    LET effective == IF tpl = <<>> THEN DefaultOutputTemplate ELSE tpl
        values == Replacements(inputFile, t)
    IN  {cleanupFileName(result) :
            result \in ApplyReplacements({<<effective, DOMAIN values>>}, values)}

(***************************************************************************)
(* Output paths: BuildSubtitlesFileNameWithConfig and the temporary file   *)
(* of CreateSubtitlesMKS                                                   *)
(***************************************************************************)

\* The path elements filepath.Clean keeps: "" and "." are dropped, ".."
\* removes the element before it, is dropped at the root, and is kept at the
\* start of a relative path.
RECURSIVE CleanElements(_, _, _)
CleanElements(kept, elements, rooted) ==
    IF elements = <<>> THEN kept
    ELSE LET el == Head(elements)
             next == IF el = <<>> \/ el = <<".">> THEN kept
                     ELSE IF el = <<".", ".">>
                          THEN IF kept # <<>> /\ kept[Len(kept)] # <<".", ".">>
                               THEN SubSeq(kept, 1, Len(kept) - 1)
                               ELSE IF rooted THEN kept
                               ELSE Append(kept, el)
                     ELSE Append(kept, el)
         IN  CleanElements(next, Tail(elements), rooted)

\* filepath.Clean with "/" as the separator.
Clean(path) ==
    LET rooted == path # <<>> /\ path[1] = "/"
        cleaned == (IF rooted THEN <<"/">> ELSE <<>>)
                      \o Join(CleanElements(<<>>, Split(path, "/"), rooted), <<"/">>)
    IN  IF cleaned = <<>> THEN <<".">> ELSE cleaned

\* filepath.Dir: the path up to its last separator, cleaned.
Dir(path) ==
    LET slashes == {i \in 1..Len(path) : path[i] = "/"}
    IN  IF slashes = {} THEN Clean(<<>>)
        ELSE Clean(SubSeq(path, 1, CHOOSE i \in slashes : \A j \in slashes : i >= j))

\* filepath.Join: the elements from the first non-empty one on, joined with
\* the separator and cleaned; the empty path when every element is empty.
FilepathJoin(elements) ==
    LET nonEmpty == {i \in 1..Len(elements) : elements[i] # <<>>}
    IN  IF nonEmpty = {} THEN <<>>
        ELSE Clean(Join(SubSeq(elements,
                               CHOOSE i \in nonEmpty : \A j \in nonEmpty : i <= j,
                               Len(elements)),
                        <<"/">>))

\* The markers that stand for "-o without a directory".
BasenameMarker == <<"_", "_", "B", "A", "S", "E", "N", "A", "M", "E", "_", "S", "U", "B", "T", "I", "T", "L", "E", "S", "_", "_">>

BatchMarker == <<"B", "A", "T", "C", "H", "_", "B", "A", "S", "E", "N", "A", "M", "E", "_", "S", "U", "B", "T", "I", "T", "L", "E", "S">>

\* main: the OutputConfig built from the flags, for --extract and for
\* --batch.
BuildOutputConfig(batch, flagDir, flagTemplate, inputFile) ==
    [OutputDir |->
        IF flagDir = BasenameMarker
        THEN IF batch THEN BatchMarker
             ELSE FilepathJoin(<<Dir(inputFile),
                                 TrimSuffix(Base(inputFile), Ext(inputFile))
                                    \o <<"-", "s", "u", "b", "t", "i", "t", "l", "e", "s">>>>)
        ELSE flagDir,
     Template |-> IF flagTemplate = <<>> THEN DefaultOutputTemplate ELSE flagTemplate]

\* The directory BuildSubtitlesFileNameWithConfig hands to os.MkdirAll;
\* empty when it makes no such call.
OutputDirToCreate(inputFile, config) ==
    IF config.OutputDir = <<>> THEN <<>>
    ELSE IF config.OutputDir = BatchMarker
         THEN FilepathJoin(<<Dir(inputFile),
                             TrimSuffix(Base(inputFile), Ext(inputFile)) \o <<"-", "s", "u", "b", "t", "i", "t", "l", "e", "s">>>>)
    ELSE config.OutputDir

\* BuildSubtitlesFileNameWithConfig that keeps the configured directory when
\* it could not be created.
BuildSubtitlesFileNameWithConfigNoFallback(inputFile, t, config, mkdirOk) ==
    LET outputDir == IF config.OutputDir # <<>> THEN OutputDirToCreate(inputFile, config)
                     ELSE Dir(inputFile)
    IN  {FilepathJoin(<<outputDir, fileName>>) :
            fileName \in BuildFileNameFromTemplate(inputFile, t, config.Template)}

\* util.BuildSubtitlesFileNameWithConfig: the set of paths one call can
\* return, mkdirOk telling whether its os.MkdirAll succeeds.
BuildSubtitlesFileNameWithConfig(inputFile, t, config, mkdirOk) ==
    LET outputDir == IF config.OutputDir # <<>> /\ mkdirOk
                     THEN OutputDirToCreate(inputFile, config)
                     ELSE Dir(inputFile)
    IN  {FilepathJoin(<<outputDir, fileName>>) :
            fileName \in BuildFileNameFromTemplate(inputFile, t, config.Template)}

\* mkv.CreateSubtitlesMKS, lines 166-179: the path of the temporary file,
\* mkdirOk telling whether its os.MkdirAll succeeds.
MksFileName(inputFile, config, mkdirOk) ==
    LET dir == IF config.OutputDir # <<>> /\ mkdirOk THEN config.OutputDir
               ELSE Dir(inputFile)
    IN  FilepathJoin(<<dir, TrimSuffix(Base(inputFile), Ext(inputFile))
                              \o <<".", "s", "u", "b", "t", "i", "t", "l", "e", "s", ".", "m", "k", "s">>>>)

(***************************************************************************)
(* mkv.ProcessTracks and mkv.ExtractMultipleSubtitles                      *)
(***************************************************************************)

\* The jobs of one source file, in the order of the jobs: the slice
\* ProcessTracks appends to under the key MksFileName.
RECURSIVE GroupOf(_, _)
GroupOf(jobList, inputFile) ==
    IF jobList = <<>> THEN <<>>
    ELSE (IF Head(jobList).MksFileName = inputFile
          THEN <<[TrackId |-> Head(jobList).TrackId,
                  OriginalNumber |-> Head(jobList).OriginalNumber,
                  OutFileName |-> Head(jobList).OutFileName]>>
          ELSE <<>>) \o GroupOf(Tail(jobList), inputFile)

\* The arguments of mkvextract that name the tracks, with the number of the
\* original track in the place of the id.
TrackPairsByNumber(tracks) ==
    [i \in 1..Len(tracks) |-> <<tracks[i].OriginalNumber, tracks[i].OutFileName>>]

\* ExtractMultipleSubtitles: the arguments "id:destination" of mkvextract,
\* one for each track of the call.
TrackPairs(tracks) ==
    [i \in 1..Len(tracks) |-> <<tracks[i].TrackId, tracks[i].OutFileName>>]

\* ProcessTracks going on to the next group after a failed call.
StageAfterCallIgnoringError(ok, pending) ==
    IF pending = {} THEN "returned nil" ELSE "extracting"

\* ProcessTracks after a call of ExtractMultipleSubtitles: it returns the
\* error of a failed call, goes on while its range has groups left, and
\* returns nil after the last.
StageAfterCall(ok, pending) ==
    IF ~ok THEN "returned error"
    ELSE IF pending = {} THEN "returned nil"
    ELSE "extracting"

(***************************************************************************)
(* processFile, cli.ShowFileInfo and the selection of CreateSubtitlesMKS   *)
(***************************************************************************)

\* strings.HasSuffix
HasSuffix(s, suffix) ==
    Len(suffix) <= Len(s) /\ SubSeq(s, Len(s) - Len(suffix) + 1, Len(s)) = suffix

\* util.IsMKVFile
IsMKVFile(inputFile) ==
    \/ HasSuffix(ToLower(inputFile), <<".", "m", "k", "v">>)
    \/ HasSuffix(ToLower(inputFile), <<".", "m", "k", "s">>)

\* The subtitle tracks a loop `if track.Type == "subtitles" &&
\* MatchesTrackSelection(track, selection)` can keep, in file order: the set
\* of the lists it can end with.
RECURSIVE SelectedTrackLists(_, _)
SelectedTrackLists(tracks, sel) ==
    IF tracks = <<>> THEN {<<>>}
    ELSE LET rest == SelectedTrackLists(Tail(tracks), sel)
             keeps == IF Head(tracks).Type = "subtitles"
                      THEN MatchesTrackSelection(Head(tracks), sel)
                      ELSE {FALSE}
         IN  {IF keep THEN <<Head(tracks)>> \o list ELSE list :
                 <<keep, list>> \in keeps \X rest}

\* What the input check of processFile and ShowFileInfo does: for a missing
\* path it returns the error of os.Stat; for a directory it returns that
\* error too, which is nil; for any other failure of os.Stat the FileInfo is
\* nil and IsDir panics; for a file without MKV extension it returns an
\* error.
InputCheck(path, stat) ==
    IF stat = "missing" THEN "returned error"
    ELSE IF stat = "stat error" THEN "panicked"
    ELSE IF stat = "directory" THEN "returned nil"
    ELSE IF ~IsMKVFile(path) THEN "returned error"
    ELSE "validated"

\* The error the input check returns with: the error of os.Stat (nil for a
\* directory), or the error made for a file without MKV extension.
InputCheckError(path, stat) ==
    IF stat = "missing" THEN "no such file or directory"
    ELSE IF stat \in {"stat error", "directory"} THEN "nil"
    ELSE IF ~IsMKVFile(path) THEN "file is not an MKV file"
    ELSE "nil"

\* The errors of GetTrackInfo.
GetTrackInfoErrors ==
    {"error analyzing tracks", "error parsing track information",
     "file is not a valid Matroska container"}

\* The jobs of processFile, lines 93-118: one for each subtitle track of the
\* temporary file, whose k-th track has id k - 1, number k and the content
\* of the original track with id muxedIds[k]; it is named after the k-th
\* selected original track, or after itself when there is none.
ExtractionJobs(muxedIds, selectedOriginal, tracks) ==
    [k \in 1..Len(muxedIds) |->
        LET source == CHOOSE i \in 1..Len(tracks) : tracks[i].Id = muxedIds[k]
            muxedTrack == [tracks[source] EXCEPT !.Id = k - 1, !.Number = k]
        IN  [Track |-> muxedTrack,
             Source |-> muxedIds[k],
             OriginalTrack |-> IF k - 1 < Len(selectedOriginal)
                               THEN selectedOriginal[k]
                               ELSE muxedTrack]]

(***************************************************************************)
(* Batch processing: processBatch and batch.Processor.Process              *)
(***************************************************************************)

\* processBatch returning nil whatever the count of errors.
BatchReturnAlwaysNil(errorCount) == "returned nil"

\* processBatch, lines 208-212: an error when a file failed, nil otherwise.
BatchReturn(errorCount) ==
    IF errorCount > 0 THEN "returned error" ELSE "returned nil"

(***************************************************************************)
(* GetTrackInfo                                                            *)
(***************************************************************************)

\* What json.Unmarshal cannot parse.
NotJSON == [IsJSON |-> FALSE, Container |-> [Type |-> <<>>], Tracks |-> <<>>]

Matroska == <<"m", "a", "t", "r", "o", "s", "k", "a">>

\* GetTrackInfo comparing the container type as it was reported.
GetTrackInfoExactType(cmdFails, out) ==
    IF cmdFails THEN [mkvInfo |-> <<>>, err |-> "error analyzing tracks"]
    ELSE IF ~out.IsJSON THEN [mkvInfo |-> <<>>, err |-> "error parsing track information"]
    ELSE IF out.Container.Type # Matroska
    THEN [mkvInfo |-> <<>>, err |-> "file is not a valid Matroska container"]
    ELSE [mkvInfo |-> <<out>>, err |-> "nil"]

\* GetTrackInfo: the pair it returns, a nil pointer being the empty sequence.
GetTrackInfo(cmdFails, out) ==
    IF cmdFails THEN [mkvInfo |-> <<>>, err |-> "error analyzing tracks"]
    ELSE IF ~out.IsJSON THEN [mkvInfo |-> <<>>, err |-> "error parsing track information"]
    ELSE IF ~(ToLower(TrimSpace(out.Container.Type)) = Matroska)
    THEN [mkvInfo |-> <<>>, err |-> "file is not a valid Matroska container"]
    ELSE [mkvInfo |-> <<out>>, err |-> "nil"]

(***************************************************************************)
(* ExtractSubtitlesParallel                                                *)
(***************************************************************************)

\* calculateOptimalWorkers
calculateOptimalWorkers(trackCount) ==
    IF trackCount = 1 THEN 1
    ELSE IF trackCount <= 4 THEN trackCount
    ELSE 4

\* The number of workers ExtractSubtitlesParallel starts, lines 44-46.
WorkerCount(jobCount, maxWorkersGiven) ==
    IF maxWorkersGiven <= 0 \/ maxWorkersGiven > jobCount
    THEN calculateOptimalWorkers(jobCount)
    ELSE maxWorkersGiven

\* The result of one call of ExtractSubtitles.
ExtractionResult(job, failing) == [Job |-> job, Failed |-> job \in failing]

\* A collector that keeps the results of successful extractions only.
CollectSuccessful(collected, result) ==
    IF result.Failed THEN collected ELSE Append(collected, result)

\* Line 84: results = append(results, result).
Collect(collected, result) == Append(collected, result)

(***************************************************************************)
(* ProcessSelectionAndExclusion                                            *)
(***************************************************************************)

\* strconv.Itoa, negative numbers included.
ItoaSigned(n) == IF n < 0 THEN <<"-">> \o Itoa(0 - n) ELSE Itoa(n)

\* A conversion that leaves the format filters out.
convertSelectionToStringWithoutFormats(sel) ==
    Join(sel.LanguageCodes
             \o [i \in 1..Len(sel.TrackNumbers) |-> ItoaSigned(sel.TrackNumbers[i])],
         <<",">>)

\* convertSelectionToString: the language codes, the track numbers and the
\* format filters, in this order, joined by commas.
convertSelectionToString(sel) ==
    Join(sel.LanguageCodes
             \o [i \in 1..Len(sel.TrackNumbers) |-> ItoaSigned(sel.TrackNumbers[i])]
             \o sel.FormatFilters,
         <<",">>)

\* convertExclusionToString
convertExclusionToString(excl) ==
    Join(excl.LanguageCodes
             \o [i \in 1..Len(excl.TrackNumbers) |-> ItoaSigned(excl.TrackNumbers[i])]
             \o excl.FormatFilters,
         <<",">>)

\* The three filter lists of a parser's result.
FiltersOf(parse) ==
    [LanguageCodes |-> parse.LanguageCodes, TrackNumbers |-> parse.TrackNumbers,
     FormatFilters |-> parse.FormatFilters]

NoFilters == [LanguageCodes |-> <<>>, TrackNumbers |-> <<>>, FormatFilters |-> <<>>]

\* The empty SelectionResult of line 23.
EmptySelectionResult ==
    [Selection |-> NoFilters, Exclusions |-> NoFilters,
     LanguageFilter |-> <<>>, ExclusionFilter |-> <<>>]

\* A loop that takes every answer.
NeverAskAgain(invalidItems) == FALSE

\* Lines 35, 57 and 88: len(invalidItems) > 0, the question is asked again.
AskAgain(invalidItems) == Len(invalidItems) > 0

(***************************************************************************)
(* From a parsed filter to its string and back                             *)
(***************************************************************************)

\* The filter a parser of package cli makes of an input.
ParsedBy(parser, in, available) ==
    IF parser = "ParseTrackSelection" THEN FiltersOf(ParseTrackSelection(in))
    ELSE IF parser = "ParseTrackExclusion" THEN FiltersOf(ParseTrackExclusion(in))
    ELSE IF parser = "ParseTrackSelectionWithValidation"
    THEN FiltersOf(ParseTrackSelectionWithValidation(in, available))
    ELSE FiltersOf(ParseTrackExclusionWithValidation(in, available))

IsExclusionParser(parser) ==
    parser \in {"ParseTrackExclusion", "ParseTrackExclusionWithValidation"}

(***************************************************************************)
(* SpecLanguage: calls of MatchesLanguageFilter                            *)
(***************************************************************************)

\* Language strings outside the table: empty, undetermined, unknown codes.
OtherLanguages ==
    {<<>>, <<"u", "n", "d">>, <<"x", "x">>, <<"e", "n", "g", "l">>}

\* The strings a call is tried on for one table entry: every spelling of
\* the 2-letter code and of its 3-letter code, and the strings outside the
\* table.
LanguageInputs(twoLetter) ==
    CaseVariants(twoLetter) \cup CaseVariants(LanguageCodeMapping[twoLetter])
        \cup OtherLanguages

IdleLanguage ==
    /\ trackLanguage = <<>>
    /\ filterLanguage = <<>>
    /\ langResult = NoResult

IdleFormat ==
    /\ codecId = ""
    /\ formatFilter = <<>>
    /\ formatResult = NoResult

IdleMatcher ==
    /\ track = [Number |-> 0, Language |-> <<>>, CodecId |-> ""]
    /\ selection = [LanguageCodes |-> <<>>, TrackNumbers |-> <<>>, FormatFilters |-> <<>>,
                    Exclusions |-> [LanguageCodes |-> <<>>, TrackNumbers |-> <<>>,
                                    FormatFilters |-> <<>>]]
    /\ exclusionResult = NoResult
    /\ selectionResult = NoResult

IdleParser ==
    /\ input = <<>>
    /\ availableTracks = <<>>
    /\ parsed = NoResult

IdleTemplate ==
    /\ inputFileName = <<>>
    /\ namedTrack = [Number |-> 0, Language |-> <<>>, CodecId |-> "", TrackName |-> <<>>,
                     Forced |-> FALSE, Default |-> FALSE]
    /\ template = <<>>
    /\ outputFileName = NoResult
    /\ repeatedFileName = NoResult

IdleOutput ==
    /\ batchMode = FALSE
    /\ flagOutputDir = <<>>
    /\ runFiles = <<>>
    /\ runTracks = <<>>
    /\ outputConfig = [OutputDir |-> <<>>, Template |-> <<>>]
    /\ fileNo = 0
    /\ stage = "idle"
    /\ trackIdx = 0
    /\ mksFile = NoResult
    /\ mkdirAllCalls = {}
    /\ destinations = <<>>
    /\ fileOutcomes = <<>>

IdleProcessTracks ==
    /\ jobs = <<>>
    /\ jobsByInputFile = <<>>
    /\ pendingFiles = {}
    /\ extractCalls = <<>>
    /\ extracted = <<>>
    /\ successCount = 0
    /\ tracksStage = "idle"

IdleProcessFile ==
    /\ operation = "none"
    /\ inputPath = <<>>
    /\ inputStat = "missing"
    /\ fileTracks = <<>>
    /\ fileSelection = [LanguageCodes |-> <<>>, TrackNumbers |-> <<>>, FormatFilters |-> <<>>,
                        Exclusions |-> [LanguageCodes |-> <<>>, TrackNumbers |-> <<>>,
                                        FormatFilters |-> <<>>]]
    /\ selectedOriginalTracks = <<>>
    /\ muxedTrackIds = <<>>
    /\ toolCalls = <<>>
    /\ fileStage = "idle"
    /\ fileSteps = <<>>
    /\ failedStep = "none"
    /\ fileError = "nil"
    /\ fileJobs = <<>>
    /\ tempFile = "absent"

IdleBatch ==
    /\ batchLoop = "none"
    /\ mkvFiles = <<>>
    /\ fileCalls = <<>>
    /\ batchSuccessCount = 0
    /\ batchErrorCount = 0
    /\ batchStage = "idle"
    /\ exitCode = -1

IdleGetTrackInfo ==
    /\ queryFails = FALSE
    /\ queryOutput = NotJSON
    /\ trackInfoResult = <<>>

IdleParallel ==
    /\ parallelJobs = <<>>
    /\ maxWorkersArg = 0
    /\ failingJobs = {}
    /\ parallelStage = "idle"
    /\ maxWorkers = 0
    /\ workersStarted = 0
    /\ jobsSent = 0
    /\ jobChan = <<>>
    /\ jobChanClosed = FALSE
    /\ resultChan = <<>>
    /\ resultChanClosed = FALSE
    /\ waitingWorkers = 0
    /\ extracting = {}
    /\ wg = 0
    /\ closerStarted = FALSE
    /\ extractions = <<>>
    /\ results = <<>>

IdlePrompt ==
    /\ extractAll = FALSE
    /\ promptTracks = <<>>
    /\ promptStage = "idle"
    /\ prompts = <<>>
    /\ promptResult = [Selection |-> [LanguageCodes |-> <<>>, TrackNumbers |-> <<>>, FormatFilters |-> <<>>],
                       Exclusions |-> [LanguageCodes |-> <<>>, TrackNumbers |-> <<>>, FormatFilters |-> <<>>],
                       LanguageFilter |-> <<>>, ExclusionFilter |-> <<>>]

IdleRoundTrip ==
    /\ typedInput = <<>>
    /\ typedTracks = <<>>
    /\ usedParser = "none"
    /\ confirmedFilter = [LanguageCodes |-> <<>>, TrackNumbers |-> <<>>, FormatFilters |-> <<>>]
    /\ filterString = <<>>
    /\ appliedFilter = [LanguageCodes |-> <<>>, TrackNumbers |-> <<>>, FormatFilters |-> <<>>]
    /\ roundTripStage = "idle"

IdleMux ==
    /\ stderrToWrite = 0
    /\ stderrWritten = <<>>
    /\ processState = "not started"
    /\ stderrPipe = <<>>
    /\ stderrPipeClosed = FALSE
    /\ stderrOutput = <<>>
    /\ stderrReader = "not started"
    /\ tickerGoroutine = "not started"
    /\ muxStage = "idle"
    /\ reportedStderr = <<>>

InitLanguage ==
    /\ \E twoLetter \in DOMAIN LanguageCodeMapping :
          /\ trackLanguage \in LanguageInputs(twoLetter)
          /\ filterLanguage \in LanguageInputs(twoLetter)
    /\ langResult = NoResult
    /\ IdleFormat
    /\ IdleMatcher
    /\ IdleParser
    /\ IdleTemplate
    /\ IdleOutput
    /\ IdleProcessTracks
    /\ IdleProcessFile
    /\ IdleBatch
    /\ IdleGetTrackInfo
    /\ IdleParallel
    /\ IdlePrompt
    /\ IdleRoundTrip
    /\ IdleMux

CallMatchesLanguageFilter ==
    /\ langResult = NoResult
    /\ \E result \in MatchesLanguageFilter(trackLanguage, filterLanguage) :
          langResult' = Returned(result)
    /\ UNCHANGED <<trackLanguage, filterLanguage, formatVars, matcherVars, parserVars, templateVars, outputVars, processTracksVars, processFileVars, batchVars, getTrackInfoVars, parallelVars, promptVars, roundTripVars, muxVars>>

NextLanguage == CallMatchesLanguageFilter

SpecLanguage == InitLanguage /\ [][NextLanguage]_vars

\* trackLang and filterLang are, up to letter case, the two codes of one
\* entry of the language table, in either order.
IsTablePair(trackLang, filterLang) ==
    \E twoLetter \in DOMAIN LanguageCodeMapping :
        \/ /\ EqualFold(trackLang, twoLetter)
           /\ EqualFold(filterLang, LanguageCodeMapping[twoLetter])
        \/ /\ EqualFold(filterLang, twoLetter)
           /\ EqualFold(trackLang, LanguageCodeMapping[twoLetter])

\* C7: for every 2-letter/3-letter pair of the language table, in either
\* argument order and in any letter case, MatchesLanguageFilter returns
\* true.
C7_TablePairsMatchBothWays ==
    (langResult # NoResult /\ IsTablePair(trackLanguage, filterLanguage))
        => langResult = Returned(TRUE)

(***************************************************************************)
(* SpecFormat: calls of MatchesFormatFilter                                *)
(***************************************************************************)

\* Codec identifiers no table entry names.
UnknownCodecs == {"S_UNKNOWN", ""}

\* Format tokens outside the table.
OtherFormats == {<<>>, <<"x", "y", "z">>, <<"s", "r", "t", "x">>, <<"s", "r">>}

FormatInputs ==
    UNION {CaseVariants(SubtitleExtensionByCodec[c]) : c \in DOMAIN SubtitleExtensionByCodec}
        \cup OtherFormats

InitFormat ==
    /\ codecId \in DOMAIN SubtitleExtensionByCodec \cup UnknownCodecs
    /\ formatFilter \in FormatInputs
    /\ formatResult = NoResult
    /\ IdleLanguage
    /\ IdleMatcher
    /\ IdleParser
    /\ IdleTemplate
    /\ IdleOutput
    /\ IdleProcessTracks
    /\ IdleProcessFile
    /\ IdleBatch
    /\ IdleGetTrackInfo
    /\ IdleParallel
    /\ IdlePrompt
    /\ IdleRoundTrip
    /\ IdleMux

CallMatchesFormatFilter ==
    /\ formatResult = NoResult
    /\ formatResult' = Returned(MatchesFormatFilter(codecId, formatFilter))
    /\ UNCHANGED <<codecId, formatFilter, languageVars, matcherVars, parserVars, templateVars, outputVars, processTracksVars, processFileVars, batchVars, getTrackInfoVars, parallelVars, promptVars, roundTripVars, muxVars>>

NextFormat == CallMatchesFormatFilter

SpecFormat == InitFormat /\ [][NextFormat]_vars

\* The extension the format table gives a codec, "srt" when the table does
\* not name the codec.
TableExtension(codec) ==
    IF codec \in DOMAIN SubtitleExtensionByCodec
    THEN SubtitleExtensionByCodec[codec]
    ELSE <<"s", "r", "t">>

\* C8 as stated: MatchesFormatFilter is true exactly when the token equals,
\* case-insensitively, the codec's extension in the format table.
C8_FormatMatchIsFoldedEquality ==
    formatResult # NoResult =>
        (formatResult = Returned(TRUE)
            <=> ToLower(formatFilter) = ToLower(TableExtension(codecId)))

\* C8 amended: for a non-empty token MatchesFormatFilter is true exactly
\* when the token equals, case-insensitively, the codec's extension in the
\* format table ("srt" for a codec the table does not name); for the empty
\* token it is true for every codec.
C8_FormatMatchNonEmptyToken ==
    formatResult # NoResult =>
        IF formatFilter = <<>>
        THEN formatResult = Returned(TRUE)
        ELSE (formatResult = Returned(TRUE)
                <=> ToLower(formatFilter) = ToLower(TableExtension(codecId)))

\* C8 witness: a codec the table does not name, matched by "SrT".
C8_Witness ==
    /\ codecId = "S_UNKNOWN"
    /\ formatFilter = <<"S", "r", "T">>
    /\ formatResult = Returned(TRUE)

(***************************************************************************)
(* SpecMatcher: calls of MatchesTrackExclusion and MatchesTrackSelection   *)
(***************************************************************************)

\* Track numbers of the modelled container run from 1 to MaxTrackNumber.
MaxTrackNumber == 2

\* The inclusion and exclusion filters hold at most MaxCriteria tokens
\* together.
MaxCriteria == 3

TrackLanguages == {<<"e", "n", "g">>, <<"s", "r">>, <<>>}

TrackCodecs == {"S_TEXT/UTF8", "S_HDMV/PGS", "S_UNKNOWN"}

FilterLanguages == {<<"e", "n">>, <<"s", "r", "p">>}

FilterFormats == {<<"s", "r", "t">>, <<"s", "u", "p">>}

Tracks ==
    [Number : 1..MaxTrackNumber, Language : TrackLanguages, CodecId : TrackCodecs]

InitMatcher ==
    /\ track \in Tracks
    /\ \E nl, nn, nf, xl, xn, xf \in 0..MaxCriteria :
          /\ nl + nn + nf + xl + xn + xf <= MaxCriteria
          /\ selection \in
                [LanguageCodes : [1..nl -> FilterLanguages],
                 TrackNumbers  : [1..nn -> 1..MaxTrackNumber],
                 FormatFilters : [1..nf -> FilterFormats],
                 Exclusions    : [LanguageCodes : [1..xl -> FilterLanguages],
                                  TrackNumbers  : [1..xn -> 1..MaxTrackNumber],
                                  FormatFilters : [1..xf -> FilterFormats]]]
    /\ exclusionResult = NoResult
    /\ selectionResult = NoResult
    /\ IdleLanguage
    /\ IdleFormat
    /\ IdleParser
    /\ IdleTemplate
    /\ IdleOutput
    /\ IdleProcessTracks
    /\ IdleProcessFile
    /\ IdleBatch
    /\ IdleGetTrackInfo
    /\ IdleParallel
    /\ IdlePrompt
    /\ IdleRoundTrip
    /\ IdleMux

CallMatchesTrackExclusion ==
    /\ exclusionResult = NoResult
    /\ \E result \in MatchesTrackExclusion(track, selection.Exclusions) :
          exclusionResult' = Returned(result)
    /\ UNCHANGED <<track, selection, selectionResult, languageVars, formatVars, parserVars, templateVars, outputVars, processTracksVars, processFileVars, batchVars, getTrackInfoVars, parallelVars, promptVars, roundTripVars, muxVars>>

CallMatchesTrackSelection ==
    /\ selectionResult = NoResult
    /\ \E result \in MatchesTrackSelection(track, selection) :
          selectionResult' = Returned(result)
    /\ UNCHANGED <<track, selection, exclusionResult, languageVars, formatVars, parserVars, templateVars, outputVars, processTracksVars, processFileVars, batchVars, getTrackInfoVars, parallelVars, promptVars, roundTripVars, muxVars>>

NextMatcher == CallMatchesTrackExclusion \/ CallMatchesTrackSelection

SpecMatcher == InitMatcher /\ [][NextMatcher]_vars

\* C1: when MatchesTrackExclusion returns true for a track and the
\* exclusions of a selection, MatchesTrackSelection returns false for that
\* track and selection.
C1_ExclusionAlwaysWins ==
    (exclusionResult = Returned(TRUE) /\ selectionResult # NoResult)
        => selectionResult = Returned(FALSE)

\* C2: with no inclusion criteria MatchesTrackSelection returns the negation
\* of MatchesTrackExclusion; with no exclusion criteria either, the track is
\* selected, and MatchesTrackExclusion returns false.
C2_EmptySelectionIsNotExcluded ==
    /\ (NoCriteria(selection) /\ exclusionResult # NoResult /\ selectionResult # NoResult)
          => selectionResult = Returned(~exclusionResult[1])
    /\ (NoCriteria(selection) /\ NoCriteria(selection.Exclusions)
            /\ selectionResult # NoResult)
          => selectionResult = Returned(TRUE)
    /\ (NoCriteria(selection.Exclusions) /\ exclusionResult # NoResult)
          => exclusionResult = Returned(FALSE)

\* A track language matches a filter token: the token is empty, or equals
\* the language in any letter case, or the two are the codes of one entry
\* of the language table.
LanguageTokenMatches(trackLang, token) ==
    \/ token = <<>>
    \/ EqualFold(trackLang, token)
    \/ \E twoLetter \in DOMAIN LanguageCodeMapping :
          \/ /\ EqualFold(token, twoLetter)
             /\ EqualFold(trackLang, LanguageCodeMapping[twoLetter])
          \/ /\ EqualFold(token, LanguageCodeMapping[twoLetter])
             /\ EqualFold(trackLang, twoLetter)

\* C3: with some inclusion criterion and a track no call reports excluded,
\* MatchesTrackSelection returns true exactly when the track number is
\* listed, or the track language matches a listed language token, or the
\* format of the track's codec matches a listed format token.
C3_SelectionIsUnionOfCriteria ==
    (/\ ~NoCriteria(selection)
     /\ TRUE \notin MatchesTrackExclusion(track, selection.Exclusions)
     /\ selectionResult # NoResult)
        => (selectionResult = Returned(TRUE) <=>
              \/ \E i \in 1..Len(selection.TrackNumbers) :
                    selection.TrackNumbers[i] = track.Number
              \/ \E i \in 1..Len(selection.LanguageCodes) :
                    LanguageTokenMatches(track.Language, selection.LanguageCodes[i])
              \/ \E i \in 1..Len(selection.FormatFilters) :
                    ToLower(selection.FormatFilters[i]) = ToLower(TableExtension(track.CodecId)))

(***************************************************************************)
(* SpecParser: calls of the four selection and exclusion parsers           *)
(***************************************************************************)

\* An input holds at most MaxItems comma-separated items.
MaxItems == 2

\* The items an input is made of: track numbers (plain, padded, signed,
\* beyond the container's tracks, beyond an int), language codes, format
\* names, unknown words, empty and blank items.
RawItems ==
    {<<"1">>, <<" ", "2", " ">>, <<"+", "1">>, <<"1", "4">>,
     <<"9", "9", "9", "9", "9", "9", "9", "9", "9", "9",
       "9", "9", "9", "9", "9", "9", "9", "9", "9", "9">>,
     <<"e", "n", "g">>, <<"E", "N">>, <<"S", "r", "t">>, <<"s", "u", "p">>,
     <<"x", "y", "z", "1", "2", "3", "a", "b", "c">>, <<"x", "x">>,
     <<>>, <<" ">>}

\* The track numbers of a container with n subtitle tracks.
AvailableTracks(n) == [i \in 1..n |-> i]

InitParser ==
    /\ \E n \in 0..MaxItems : \E items \in [1..n -> RawItems] :
          input = Join(items, <<",">>)
    /\ \E n \in 0..MaxTrackNumber : availableTracks = AvailableTracks(n)
    /\ parsed = NoResult
    /\ IdleLanguage
    /\ IdleFormat
    /\ IdleMatcher
    /\ IdleTemplate
    /\ IdleOutput
    /\ IdleProcessTracks
    /\ IdleProcessFile
    /\ IdleBatch
    /\ IdleGetTrackInfo
    /\ IdleParallel
    /\ IdlePrompt
    /\ IdleRoundTrip
    /\ IdleMux

CallParseTrackSelection ==
    /\ parsed = NoResult
    /\ parsed' = Returned([parser |-> "ParseTrackSelection",
                            result |-> ParseTrackSelection(input)])
    /\ UNCHANGED <<input, availableTracks, languageVars, formatVars, matcherVars, templateVars, outputVars, processTracksVars, processFileVars, batchVars, getTrackInfoVars, parallelVars, promptVars, roundTripVars, muxVars>>

CallParseTrackExclusion ==
    /\ parsed = NoResult
    /\ parsed' = Returned([parser |-> "ParseTrackExclusion",
                            result |-> ParseTrackExclusion(input)])
    /\ UNCHANGED <<input, availableTracks, languageVars, formatVars, matcherVars, templateVars, outputVars, processTracksVars, processFileVars, batchVars, getTrackInfoVars, parallelVars, promptVars, roundTripVars, muxVars>>

CallParseTrackSelectionWithValidation ==
    /\ parsed = NoResult
    /\ parsed' = Returned([parser |-> "ParseTrackSelectionWithValidation",
                            result |-> ParseTrackSelectionWithValidation(input, availableTracks)])
    /\ UNCHANGED <<input, availableTracks, languageVars, formatVars, matcherVars, templateVars, outputVars, processTracksVars, processFileVars, batchVars, getTrackInfoVars, parallelVars, promptVars, roundTripVars, muxVars>>

CallParseTrackExclusionWithValidation ==
    /\ parsed = NoResult
    /\ parsed' = Returned([parser |-> "ParseTrackExclusionWithValidation",
                            result |-> ParseTrackExclusionWithValidation(input, availableTracks)])
    /\ UNCHANGED <<input, availableTracks, languageVars, formatVars, matcherVars, templateVars, outputVars, processTracksVars, processFileVars, batchVars, getTrackInfoVars, parallelVars, promptVars, roundTripVars, muxVars>>

NextParser ==
    \/ CallParseTrackSelection
    \/ CallParseTrackExclusion
    \/ CallParseTrackSelectionWithValidation
    \/ CallParseTrackExclusionWithValidation

SpecParser == InitParser /\ [][NextParser]_vars

IsNonEmpty(item) == item # <<>>

\* The trimmed, non-empty tokens of a comma-separated input, in order.
Tokens(in) ==
    LET raw == Split(in, ",")
    IN  SelectSeq([i \in 1..Len(raw) |-> TrimSpace(raw[i])], IsNonEmpty)

\* The token parses as an integer.
IsIntegerToken(token) == Atoi(token).ok

\* The token is neither an integer, nor a known language code, nor a known
\* format name.
IsUnknownToken(token) ==
    ~Atoi(token).ok /\ ~IsValidLanguage(token) /\ ~IsValidFormat(token)

\* The token is an integer that is one of the available track numbers.
IsAvailableToken(token) ==
    /\ Atoi(token).ok
    /\ \E i \in 1..Len(availableTracks) : availableTracks[i] = Atoi(token).value

\* The token is an integer that is none of the available track numbers.
IsUnavailableToken(token) == Atoi(token).ok /\ ~IsAvailableToken(token)

Validating ==
    {"ParseTrackSelectionWithValidation", "ParseTrackExclusionWithValidation"}

\* The named parser applied to an input.
RunParser(parser, in, available) ==
    CASE parser = "ParseTrackSelection" -> ParseTrackSelection(in)
      [] parser = "ParseTrackExclusion" -> ParseTrackExclusion(in)
      [] parser = "ParseTrackSelectionWithValidation" ->
            ParseTrackSelectionWithValidation(in, available)
      [] parser = "ParseTrackExclusionWithValidation" ->
            ParseTrackExclusionWithValidation(in, available)

\* A sequence without its i-th element.
RemoveAt(seq, i) == SubSeq(seq, 1, i - 1) \o SubSeq(seq, i + 1, Len(seq))

\* C4: every token that parses as an integer becomes a track number or, in
\* a validating parser only, an invalid item; no integer token is among the
\* language codes or the format filters.  All four parsers.
C4_IntegersAreTrackNumbers ==
    parsed # NoResult =>
        LET r == parsed[1].result
            integers == SelectSeq(Tokens(input), IsIntegerToken)
        IN  /\ \A i \in 1..Len(r.LanguageCodes) : ~IsIntegerToken(r.LanguageCodes[i])
            /\ \A i \in 1..Len(r.FormatFilters) : ~IsIntegerToken(r.FormatFilters[i])
            /\ Len(r.TrackNumbers) + Len(SelectSeq(r.reported, IsIntegerToken))
                  = Len(integers)
            /\ parsed[1].parser \notin Validating
                  => SelectSeq(r.reported, IsIntegerToken) = <<>>

\* C4 witness: ParseTrackSelection has parsed "+1,eng" into track number 1
\* and language eng.
C4_Witness ==
    /\ input = <<"+", "1", ",", "e", "n", "g">>
    /\ parsed # NoResult
    /\ parsed[1].parser = "ParseTrackSelection"
    /\ parsed[1].result.TrackNumbers = <<1>>
    /\ parsed[1].result.LanguageCodes = <<<<"e", "n", "g">>>>

\* C5: the tokens that are neither integers, language codes nor format
\* names are exactly, and in order, the non-integer items reported invalid,
\* and are in none of the filter lists; every non-empty token lands in
\* exactly one of numbers, languages, formats, invalid; and parsing the input
\* without such a token classifies the other tokens the same way.
C5_InvalidItemsAreReported ==
    parsed # NoResult =>
        LET r == parsed[1].result
            raw == Split(input, ",")
        IN  /\ SelectSeq(Tokens(input), IsUnknownToken)
                  = SelectSeq(r.reported, IsUnknownToken)
            /\ \A i \in 1..Len(r.LanguageCodes) : ~IsUnknownToken(r.LanguageCodes[i])
            /\ \A i \in 1..Len(r.FormatFilters) : ~IsUnknownToken(r.FormatFilters[i])
            /\ Len(r.TrackNumbers) + Len(r.LanguageCodes) + Len(r.FormatFilters)
                  + Len(r.reported) = Len(Tokens(input))
            /\ \A i \in 1..Len(raw) :
                  IsNonEmpty(TrimSpace(raw[i])) /\ IsUnknownToken(TrimSpace(raw[i])) =>
                    LET without == RunParser(parsed[1].parser,
                                             Join(RemoveAt(raw, i), <<",">>),
                                             availableTracks)
                    IN  /\ without.LanguageCodes = r.LanguageCodes
                        /\ without.TrackNumbers = r.TrackNumbers
                        /\ without.FormatFilters = r.FormatFilters
                        /\ Len(without.reported) = Len(r.reported) - 1

\* C5 witness: ParseTrackSelectionWithValidation has parsed "xyz123abc,eng":
\* the unknown word is reported, the language after it is kept.
C5_Witness ==
    /\ input = <<"x", "y", "z", "1", "2", "3", "a", "b", "c", ",", "e", "n", "g">>
    /\ parsed # NoResult
    /\ parsed[1].parser = "ParseTrackSelectionWithValidation"
    /\ parsed[1].result.reported = <<<<"x", "y", "z", "1", "2", "3", "a", "b", "c">>>>
    /\ parsed[1].result.LanguageCodes = <<<<"e", "n", "g">>>>

\* C6: a validating parser returns as track numbers exactly the integer
\* tokens that are available track numbers and reports the other integer
\* tokens as invalid, so every returned track number is available; a
\* non-validating parser returns every integer token as a track number.
C6_ValidatedNumbersAreAvailable ==
    parsed # NoResult =>
        LET r == parsed[1].result
            integers == SelectSeq(Tokens(input), IsIntegerToken)
            accepted == SelectSeq(Tokens(input), IsAvailableToken)
            refused == SelectSeq(Tokens(input), IsUnavailableToken)
        IN  IF parsed[1].parser \in Validating
            THEN /\ \A i \in 1..Len(r.TrackNumbers) :
                       \E j \in 1..Len(availableTracks) :
                           availableTracks[j] = r.TrackNumbers[i]
                 /\ r.TrackNumbers = [i \in 1..Len(accepted) |-> Atoi(accepted[i]).value]
                 /\ SelectSeq(r.reported, IsIntegerToken) = refused
            ELSE r.TrackNumbers = [i \in 1..Len(integers) |-> Atoi(integers[i]).value]

\* C6 witness: with tracks 1 and 2 available, the validating selection
\* parser has parsed "1,14" into track number 1 and invalid item 14.
C6_Witness ==
    /\ input = <<"1", ",", "1", "4">>
    /\ availableTracks = <<1, 2>>
    /\ parsed # NoResult
    /\ parsed[1].parser = "ParseTrackSelectionWithValidation"
    /\ parsed[1].result.TrackNumbers = <<1>>
    /\ parsed[1].result.reported = <<<<"1", "4">>>>

(***************************************************************************)
(* Specification SpecTemplate: calls of util.BuildFileNameFromTemplate     *)
(***************************************************************************)

\* Input paths: an ordinary file in a directory, a base name with braces, a
\* base name that reads as a placeholder, and a file with an empty base name.
InputFileNames ==
    {<<"d", "/", "m", "o", "v", "i", "e", ".", "m", "k", "v">>, <<"a", "{", "b", "}", ".", "m", "k", "v">>, <<"{", "l", "a", "n", "g", "u", "a", "g", "e", "}", ".", "m", "k", "v">>, <<".", "m", "k", "v">>}

TrackNames == {<<>>, <<"S", "D", "H", ":", " ", "a", ".">>, <<"{", "f", "o", "r", "c", "e", "d", "}">>}

NamedTrackLanguages == {<<"e", "n", "g">>, <<>>}

NamedTrackCodecs == {"S_TEXT/ASS", "S_VOBSUB", "S_UNKNOWN"}

NamedTracks ==
    [Number : 1..MaxTrackNumber, Language : NamedTrackLanguages,
     CodecId : NamedTrackCodecs, TrackName : TrackNames,
     Forced : BOOLEAN, Default : BOOLEAN]

\* Templates: the empty one (the default applies), the seven placeholders in
\* another arrangement, a template without track number, flags only, and a
\* template with a brace pair that is no placeholder.
Templates ==
    {<<>>,
     <<"{", "t", "r", "a", "c", "k", "n", "o", "}", "-", "{", "b", "a", "s", "e", "n", "a", "m", "e", "}", "_", "{", "t", "r", "a", "c", "k", "n", "a", "m", "e", "}", ".", "{", "d", "e", "f", "a", "u", "l", "t", "}", "{", "f", "o", "r", "c", "e", "d", "}", ".", "{", "l", "a", "n", "g", "u", "a", "g", "e", "}", ".", "{", "e", "x", "t", "e", "n", "s", "i", "o", "n", "}">>,
     <<"{", "b", "a", "s", "e", "n", "a", "m", "e", "}", ".", "{", "l", "a", "n", "g", "u", "a", "g", "e", "}", ".", "{", "e", "x", "t", "e", "n", "s", "i", "o", "n", "}">>,
     <<"{", "f", "o", "r", "c", "e", "d", "}", ".", "{", "d", "e", "f", "a", "u", "l", "t", "}">>,
     <<"{", "b", "a", "s", "e", "n", "a", "m", "e", "}", ".", "{", "l", "a", "n", "g", "}", ".", "{", "t", "r", "a", "c", "k", "n", "o", "}", ".", "{", "e", "x", "t", "e", "n", "s", "i", "o", "n", "}">>}

InitTemplate ==
    /\ inputFileName \in InputFileNames
    /\ namedTrack \in NamedTracks
    /\ template \in Templates
    /\ outputFileName = NoResult
    /\ repeatedFileName = NoResult
    /\ IdleLanguage
    /\ IdleFormat
    /\ IdleMatcher
    /\ IdleParser
    /\ IdleOutput
    /\ IdleProcessTracks
    /\ IdleProcessFile
    /\ IdleBatch
    /\ IdleGetTrackInfo
    /\ IdleParallel
    /\ IdlePrompt
    /\ IdleRoundTrip
    /\ IdleMux

CallBuildFileNameFromTemplate ==
    /\ outputFileName = NoResult
    /\ \E result \in BuildFileNameFromTemplate(inputFileName, namedTrack, template) :
          outputFileName' = Returned(result)
    /\ UNCHANGED <<inputFileName, namedTrack, template, repeatedFileName,
                   languageVars, formatVars, matcherVars, parserVars, outputVars, processTracksVars, processFileVars, batchVars, getTrackInfoVars, parallelVars, promptVars, roundTripVars, muxVars>>

\* A second call with the arguments of the first.
RepeatBuildFileNameFromTemplate ==
    /\ outputFileName # NoResult
    /\ repeatedFileName = NoResult
    /\ \E result \in BuildFileNameFromTemplate(inputFileName, namedTrack, template) :
          repeatedFileName' = Returned(result)
    /\ UNCHANGED <<inputFileName, namedTrack, template, outputFileName,
                   languageVars, formatVars, matcherVars, parserVars, outputVars, processTracksVars, processFileVars, batchVars, getTrackInfoVars, parallelVars, promptVars, roundTripVars, muxVars>>

NextTemplate ==
    \/ CallBuildFileNameFromTemplate
    \/ RepeatBuildFileNameFromTemplate

SpecTemplate == InitTemplate /\ [][NextTemplate]_vars

\* The template a call works on.
EffectiveTemplate == IF template = <<>> THEN DefaultOutputTemplate ELSE template

\* The number of places where sub occurs in s.
Occurrences(s, sub) ==
    Cardinality({i \in 1..(Len(s) - Len(sub) + 1) : SubSeq(s, i, i + Len(sub) - 1) = sub})

HasBrace(s) == \E i \in 1..Len(s) : s[i] \in {"{", "}"}

Placeholders ==
    {<<"{", "b", "a", "s", "e", "n", "a", "m", "e", "}">>, <<"{", "l", "a", "n", "g", "u", "a", "g", "e", "}">>, <<"{", "t", "r", "a", "c", "k", "n", "o", "}">>, <<"{", "t", "r", "a", "c", "k", "n", "a", "m", "e", "}">>,
     <<"{", "f", "o", "r", "c", "e", "d", "}">>, <<"{", "d", "e", "f", "a", "u", "l", "t", "}">>, <<"{", "e", "x", "t", "e", "n", "s", "i", "o", "n", "}">>}

EveryPlaceholderOnce == \A p \in Placeholders : Occurrences(EffectiveTemplate, p) = 1

\* The template has no brace outside its placeholders.
OnlyPlaceholderBraces ==
    /\ Occurrences(EffectiveTemplate, <<"{">>) = Cardinality(Placeholders)
    /\ Occurrences(EffectiveTemplate, <<"}">>) = Cardinality(Placeholders)

\* The base name of the input file: its last path element without the
\* suffix that begins at its last dot.
InputBaseName ==
    LET slashes == {i \in 1..Len(inputFileName) : inputFileName[i] = "/"}
        last == IF slashes = {} THEN inputFileName
                ELSE SubSeq(inputFileName,
                            (CHOOSE i \in slashes : \A j \in slashes : i >= j) + 1,
                            Len(inputFileName))
        dots == {i \in 1..Len(last) : last[i] = "."}
    IN  IF dots = {} THEN last
        ELSE SubSeq(last, 1, (CHOOSE i \in dots : \A j \in dots : i >= j) - 1)

\* C9: the name BuildFileNameFromTemplate returns has no empty dot-separated
\* segment (no two adjacent dots, no dot at either end), and cleanupFileName
\* applied to it returns it unchanged.
C9_NoEmptySegmentAndIdempotent ==
    outputFileName # NoResult =>
        LET name == outputFileName[1]
        IN  /\ \A i \in 1..(Len(name) - 1) : ~(name[i] = "." /\ name[i + 1] = ".")
            /\ name # <<>> => (name[1] # "." /\ name[Len(name)] # ".")
            /\ cleanupFileName(name) = name

\* A track with neither flag set, rendered with the default template, whose
\* empty track name and flags leave four adjacent dots for the clean-up.
C9_Witness ==
    /\ template = <<>>
    /\ inputFileName = <<"d", "/", "m", "o", "v", "i", "e", ".", "m", "k", "v">>
    /\ namedTrack = [Number |-> 1, Language |-> <<"e", "n", "g">>, CodecId |-> "S_TEXT/ASS",
                     TrackName |-> <<>>, Forced |-> FALSE, Default |-> FALSE]
    /\ outputFileName = Returned(<<"m", "o", "v", "i", "e", ".", "e", "n", "g", ".", "0", "0", "1", ".", "a", "s", "s">>)

\* C10 as stated: for a template with every placeholder exactly once, every
\* input file name and every track, the rendered name has no "{" and no "}".
C10_NoBraceInRenderedName ==
    (outputFileName # NoResult /\ EveryPlaceholderOnce) =>
        ~HasBrace(outputFileName[1])

\* C10, amended: for a template that has every placeholder exactly once and
\* no other brace, and an input base name, track language and track name
\* without braces, the rendered name has no "{" and no "}".
C10_NoBraceWhenValuesHaveNone ==
    (/\ outputFileName # NoResult
     /\ EveryPlaceholderOnce
     /\ OnlyPlaceholderBraces
     /\ ~HasBrace(InputBaseName)
     /\ ~HasBrace(namedTrack.Language)
     /\ ~HasBrace(namedTrack.TrackName)) =>
        ~HasBrace(outputFileName[1])

\* Every placeholder of the rearranged template replaced by a non-empty
\* value.
C10_Witness ==
    /\ template = <<"{", "t", "r", "a", "c", "k", "n", "o", "}", "-", "{", "b", "a", "s", "e", "n", "a", "m", "e", "}", "_", "{", "t", "r", "a", "c", "k", "n", "a", "m", "e", "}", ".", "{", "d", "e", "f", "a", "u", "l", "t", "}", "{", "f", "o", "r", "c", "e", "d", "}", ".", "{", "l", "a", "n", "g", "u", "a", "g", "e", "}", ".", "{", "e", "x", "t", "e", "n", "s", "i", "o", "n", "}">>
    /\ inputFileName = <<"d", "/", "m", "o", "v", "i", "e", ".", "m", "k", "v">>
    /\ namedTrack = [Number |-> 2, Language |-> <<"e", "n", "g">>, CodecId |-> "S_VOBSUB",
                     TrackName |-> <<"S", "D", "H", ":", " ", "a", ".">>, Forced |-> TRUE, Default |-> TRUE]
    /\ outputFileName = Returned(<<"0", "0", "2", "-", "m", "o", "v", "i", "e", "_", "S", "D", "H", "-", " ", "a", ".", "d", "e", "f", "a", "u", "l", "t", "f", "o", "r", "c", "e", "d", ".", "e", "n", "g", ".", "s", "u", "b">>)

\* C11: the name BuildFileNameFromTemplate returns, after substitution and
\* clean-up, is never the empty string.
C11_FileNameNeverEmpty ==
    outputFileName # NoResult => outputFileName[1] # <<>>

\* C13: two calls of BuildFileNameFromTemplate with the same input file
\* name, track and template return the same filename.
C13_SameArgumentsSameFileName ==
    (outputFileName # NoResult /\ repeatedFileName # NoResult) =>
        repeatedFileName = outputFileName

(***************************************************************************)
(* Specification SpecOutput: the paths of one run of --extract or --batch  *)
(***************************************************************************)

\* Input files: two of the same name in different directories, one in the
\* working directory.
RunFileLists(batch) ==
    IF batch
    THEN {<<<<"d", "/", "m", "o", "v", "i", "e", ".", "m", "k", "v">>, <<"e", "/", "m", "o", "v", "i", "e", ".", "m", "k", "v">>>>, <<<<"d", "/", "m", "o", "v", "i", "e", ".", "m", "k", "v">>, <<"s", "h", "o", "w", ".", "m", "k", "v">>>>}
    ELSE {<<<<"d", "/", "m", "o", "v", "i", "e", ".", "m", "k", "v">>>>, <<<<"s", "h", "o", "w", ".", "m", "k", "v">>>>}

\* The value of -o: absent, a directory, and the marker main puts in for
\* "-o" without a directory.
FlagOutputDirs == {<<>>, <<"o", "u", "t">>, BasenameMarker}

\* The value of -f: absent, a template without track number, and a template
\* of flags only.
FlagTemplates == {<<>>, <<"{", "b", "a", "s", "e", "n", "a", "m", "e", "}", ".", "{", "l", "a", "n", "g", "u", "a", "g", "e", "}", ".", "{", "e", "x", "t", "e", "n", "s", "i", "o", "n", "}">>, <<"{", "f", "o", "r", "c", "e", "d", "}", ".", "{", "d", "e", "f", "a", "u", "l", "t", "}">>}

RunTrack(number) ==
    [Number |-> number, Language |-> <<"e", "n", "g">>, CodecId |-> "S_TEXT/ASS",
     TrackName |-> <<>>, Forced |-> FALSE, Default |-> FALSE]

\* The selected subtitle tracks of a file, in file order: none, one or two.
RunTrackLists ==
    {<<>>} \cup {<<RunTrack(n)>> : n \in 1..MaxTrackNumber}
           \cup {<<RunTrack(n), RunTrack(m)>> : <<n, m>> \in
                    {p \in (1..MaxTrackNumber) \X (1..MaxTrackNumber) : p[1] < p[2]}}

InitOutput ==
    /\ batchMode \in BOOLEAN
    /\ flagOutputDir \in FlagOutputDirs
    /\ runFiles \in RunFileLists(batchMode)
    /\ runTracks \in RunTrackLists
    /\ \E flagTemplate \in FlagTemplates :
          outputConfig = BuildOutputConfig(batchMode, flagOutputDir, flagTemplate, runFiles[1])
    /\ fileNo = 1
    /\ stage = "mks"
    /\ trackIdx = 0
    /\ mksFile = NoResult
    /\ mkdirAllCalls = {}
    /\ destinations = <<>>
    /\ fileOutcomes = <<>>
    /\ IdleLanguage
    /\ IdleFormat
    /\ IdleMatcher
    /\ IdleParser
    /\ IdleTemplate
    /\ IdleProcessTracks
    /\ IdleProcessFile
    /\ IdleBatch
    /\ IdleGetTrackInfo
    /\ IdleParallel
    /\ IdlePrompt
    /\ IdleRoundTrip
    /\ IdleMux

\* processFile is over for the current file: the batch goes to its next
\* file.
FileEnds(outcome) ==
    /\ fileOutcomes' = Append(fileOutcomes, outcome)
    /\ fileNo' = fileNo + 1
    /\ stage' = IF fileNo < Len(runFiles) THEN "mks" ELSE "done"
    /\ trackIdx' = 0

\* mkv.CreateSubtitlesMKS: the output directory is created (or not), the
\* file is analysed, and the selected tracks are muxed into the temporary
\* file; without selected tracks, or when mkvmerge fails, it returns an error.
CallCreateSubtitlesMKS ==
    /\ stage = "mks"
    /\ \E mkdirOk \in (IF outputConfig.OutputDir = <<>> THEN {TRUE} ELSE BOOLEAN),
          mkvmergeOk \in BOOLEAN :
          /\ mkdirAllCalls' = IF outputConfig.OutputDir = <<>> THEN mkdirAllCalls
                              ELSE mkdirAllCalls \cup {outputConfig.OutputDir}
          /\ IF mkvmergeOk /\ runTracks # <<>>
             THEN /\ mksFile' = Returned([path |-> MksFileName(runFiles[fileNo], outputConfig, mkdirOk),
                                          mkdirFailed |-> ~mkdirOk])
                  /\ stage' = "jobs"
                  /\ trackIdx' = 1
                  /\ UNCHANGED <<fileNo, fileOutcomes, processTracksVars, processFileVars, batchVars, getTrackInfoVars, parallelVars, promptVars, roundTripVars, muxVars>>
             ELSE /\ mksFile' = NoResult
                  /\ FileEnds("error")
    /\ UNCHANGED <<batchMode, flagOutputDir, runFiles, runTracks, outputConfig, destinations,
                   languageVars, formatVars, matcherVars, parserVars, templateVars, processTracksVars, processFileVars, batchVars, getTrackInfoVars, parallelVars, promptVars, roundTripVars, muxVars>>

\* processFile, one turn of its loop over the tracks of the temporary file:
\* the destination of the next job.
CallBuildSubtitlesFileNameWithConfig ==
    /\ stage = "jobs"
    /\ trackIdx <= Len(runTracks)
    /\ \E mkdirOk \in (IF outputConfig.OutputDir = <<>> THEN {TRUE} ELSE BOOLEAN) :
          /\ mkdirAllCalls' =
                IF outputConfig.OutputDir = <<>> THEN mkdirAllCalls
                ELSE mkdirAllCalls \cup {OutputDirToCreate(runFiles[fileNo], outputConfig)}
          /\ \E path \in BuildSubtitlesFileNameWithConfig(runFiles[fileNo], runTracks[trackIdx],
                                                          outputConfig, mkdirOk) :
                destinations' = Append(destinations,
                                       [file |-> fileNo, Number |-> runTracks[trackIdx].Number,
                                        path |-> path, mkdirFailed |-> ~mkdirOk])
    /\ trackIdx' = trackIdx + 1
    /\ UNCHANGED <<batchMode, flagOutputDir, runFiles, runTracks, outputConfig, fileNo, stage,
                   mksFile, fileOutcomes,
                   languageVars, formatVars, matcherVars, parserVars, templateVars, processTracksVars, processFileVars, batchVars, getTrackInfoVars, parallelVars, promptVars, roundTripVars, muxVars>>

\* processFile, after its loop: mkv.ProcessTracks extracts the jobs, or
\* fails.
CallProcessTracks ==
    /\ stage = "jobs"
    /\ trackIdx > Len(runTracks)
    /\ \E mkvextractOk \in BOOLEAN : FileEnds(IF mkvextractOk THEN "ok" ELSE "error")
    /\ mksFile' = NoResult
    /\ UNCHANGED <<batchMode, flagOutputDir, runFiles, runTracks, outputConfig, mkdirAllCalls,
                   destinations,
                   languageVars, formatVars, matcherVars, parserVars, templateVars, processTracksVars, processFileVars, batchVars, getTrackInfoVars, parallelVars, promptVars, roundTripVars, muxVars>>

NextOutput ==
    \/ CallCreateSubtitlesMKS
    \/ CallBuildSubtitlesFileNameWithConfig
    \/ CallProcessTracks

SpecOutput == InitOutput /\ [][NextOutput]_vars

\* C12: within one run no two extraction jobs have the same destination
\* path, be they two tracks of one file or tracks of two files of a batch.
C12_NoTwoJobsShareAPath ==
    \A i, j \in 1..Len(destinations) :
        i # j => destinations[i].path # destinations[j].path

\* The path is the directory itself or lies directly in it.
IsInDirectory(path, directory) == path = directory \/ Dir(path) = directory

SubtitlesDirectoryOf(inputFile) ==
    LET slashes == {i \in 1..Len(inputFile) : inputFile[i] = "/"}
        cut == IF slashes = {} THEN 0 ELSE CHOOSE i \in slashes : \A j \in slashes : i >= j
        last == SubSeq(inputFile, cut + 1, Len(inputFile))
        dots == {i \in 1..Len(last) : last[i] = "."}
        stem == IF dots = {} THEN last
                ELSE SubSeq(last, 1, (CHOOSE i \in dots : \A j \in dots : i >= j) - 1)
    IN  SubSeq(inputFile, 1, cut) \o stem \o <<"-", "s", "u", "b", "t", "i", "t", "l", "e", "s">>

\* C15: the marker for "-o without a directory" is never itself the name of
\* a directory that is created or that a path is built from: with the
\* marker every such directory is {input file directory}/{basename}-subtitles
\* of a file of the run; any other non-empty value of -o is used unchanged.
C15_MarkerIsResolvedFirst ==
    LET markers == {BasenameMarker, BatchMarker}
        successful == {i \in 1..Len(destinations) : ~destinations[i].mkdirFailed}
    IN  /\ mkdirAllCalls \cap markers = {}
        /\ mksFile # NoResult => Dir(mksFile[1].path) \notin markers
        /\ \A i \in 1..Len(destinations) : Dir(destinations[i].path) \notin markers
        /\ flagOutputDir = BasenameMarker =>
              /\ mkdirAllCalls \subseteq
                    {SubtitlesDirectoryOf(runFiles[k]) : k \in 1..Len(runFiles)}
              /\ \A i \in successful :
                    IsInDirectory(destinations[i].path,
                                  SubtitlesDirectoryOf(runFiles[destinations[i].file]))
        /\ flagOutputDir \notin {<<>>, BasenameMarker} =>
              /\ mkdirAllCalls \subseteq {flagOutputDir}
              /\ \A i \in successful : IsInDirectory(destinations[i].path, flagOutputDir)

(***************************************************************************)
(* Specification SpecProcessTracks: one call of mkv.ProcessTracks          *)
(***************************************************************************)

\* The longest list of jobs.
MaxJobs == 3

\* Jobs: two source files, the ids 0 and 1 the tracks have in the source
\* file, the numbers 3 and 4 they had in the original file, two
\* destinations.
Jobs ==
    [MksFileName : {"a.subtitles.mks", "b.subtitles.mks"}, TrackId : 0..1,
     OriginalNumber : 3..4, OutFileName : {"x.srt", "y.srt"}]

InitProcessTracks ==
    /\ \E n \in 0..MaxJobs : jobs \in [1..n -> Jobs]
    /\ jobsByInputFile = <<>>
    /\ pendingFiles = {}
    /\ extractCalls = <<>>
    /\ extracted = <<>>
    /\ successCount = 0
    /\ tracksStage = "called"
    /\ IdleLanguage
    /\ IdleFormat
    /\ IdleMatcher
    /\ IdleParser
    /\ IdleTemplate
    /\ IdleOutput
    /\ IdleProcessFile
    /\ IdleBatch
    /\ IdleGetTrackInfo
    /\ IdleParallel
    /\ IdlePrompt
    /\ IdleRoundTrip
    /\ IdleMux

\* ProcessTracks, lines 327-343: without jobs it returns nil; otherwise it
\* groups the jobs by MksFileName.
GroupJobs ==
    /\ tracksStage = "called"
    /\ IF jobs = <<>>
       THEN /\ tracksStage' = "returned nil"
            /\ UNCHANGED <<jobsByInputFile, pendingFiles, processFileVars, batchVars, getTrackInfoVars, parallelVars, promptVars, roundTripVars, muxVars>>
       ELSE LET inputFiles == {jobs[i].MksFileName : i \in 1..Len(jobs)}
            IN  /\ jobsByInputFile' = [inputFile \in inputFiles |-> GroupOf(jobs, inputFile)]
                /\ pendingFiles' = inputFiles
                /\ tracksStage' = "extracting"
    /\ UNCHANGED <<jobs, extractCalls, extracted, successCount,
                   languageVars, formatVars, matcherVars, parserVars, templateVars,
                   outputVars, processFileVars, batchVars, getTrackInfoVars, parallelVars, promptVars, roundTripVars, muxVars>>

\* ProcessTracks, one turn of its range over the map of groups, in the order
\* Go picks: ExtractMultipleSubtitles runs mkvextract once for the group and
\* reports each track of it when mkvextract succeeds.
CallExtractMultipleSubtitles ==
    /\ tracksStage = "extracting"
    /\ \E inputFile \in pendingFiles, ok \in BOOLEAN :
          LET tracks == jobsByInputFile[inputFile]
          IN  /\ extractCalls' = Append(extractCalls,
                                        [inputFile |-> inputFile, pairs |-> TrackPairs(tracks),
                                         failed |-> ~ok])
              /\ extracted' = IF ok
                              THEN extracted \o
                                      [i \in 1..Len(tracks) |->
                                          [inputFile |-> inputFile,
                                           Number |-> tracks[i].OriginalNumber,
                                           OutFileName |-> tracks[i].OutFileName]]
                              ELSE extracted
              /\ successCount' = IF ok THEN successCount + Len(tracks) ELSE successCount
              /\ pendingFiles' = pendingFiles \ {inputFile}
              /\ tracksStage' = StageAfterCall(ok, pendingFiles \ {inputFile})
    /\ UNCHANGED <<jobs, jobsByInputFile,
                   languageVars, formatVars, matcherVars, parserVars, templateVars,
                   outputVars, processFileVars, batchVars, getTrackInfoVars, parallelVars, promptVars, roundTripVars, muxVars>>

NextProcessTracks ==
    \/ GroupJobs
    \/ CallExtractMultipleSubtitles

SpecProcessTracks == InitProcessTracks /\ [][NextProcessTracks]_vars

\* The jobs of a source file as "id:destination" pairs, in job order, the id
\* being the one the track has in the source file.
RECURSIVE PairsOfFile(_, _)
PairsOfFile(i, inputFile) ==
    IF i > Len(jobs) THEN <<>>
    ELSE (IF jobs[i].MksFileName = inputFile
          THEN <<<<jobs[i].TrackId, jobs[i].OutFileName>>>>
          ELSE <<>>) \o PairsOfFile(i + 1, inputFile)

\* C16: when no extraction call failed, ProcessTracks has made exactly one
\* ExtractMultipleSubtitles call for each distinct source file among the
\* jobs, and the call carries each job of that file exactly once, as the
\* pair of the track's id in the source file and its destination.
C16_OneCallPerSourceFile ==
    tracksStage = "returned nil" =>
        /\ {extractCalls[c].inputFile : c \in 1..Len(extractCalls)}
              = {jobs[i].MksFileName : i \in 1..Len(jobs)}
        /\ \A c, d \in 1..Len(extractCalls) :
              extractCalls[c].inputFile = extractCalls[d].inputFile => c = d
        /\ \A c \in 1..Len(extractCalls) :
              extractCalls[c].pairs = PairsOfFile(1, extractCalls[c].inputFile)

\* Two jobs of one file and, between them in the list, a job of another
\* file, all extracted: two calls.
C16_Witness ==
    /\ tracksStage = "returned nil"
    /\ Len(jobs) = 3
    /\ jobs[1].MksFileName = jobs[3].MksFileName
    /\ jobs[1].MksFileName # jobs[2].MksFileName
    /\ jobs[1].TrackId = 1
    /\ jobs[3].TrackId = 0
    /\ Len(extractCalls) = 2
    /\ successCount = 3

\* C17: a failed extraction call is the last call ProcessTracks makes and is
\* made once; ProcessTracks has then returned the error, and no track of the
\* failed group is reported as extracted.
C17_FailedCallEndsProcessTracks ==
    \A c \in 1..Len(extractCalls) :
        extractCalls[c].failed =>
            /\ c = Len(extractCalls)
            /\ tracksStage = "returned error"
            /\ \A d \in 1..Len(extractCalls) :
                  extractCalls[d].inputFile = extractCalls[c].inputFile => d = c
            /\ \A r \in 1..Len(extracted) :
                  extracted[r].inputFile # extractCalls[c].inputFile

\* The first group failed while another group was still to come.
C17_Witness ==
    /\ Len(extractCalls) = 1
    /\ extractCalls[1].failed
    /\ pendingFiles # {}
    /\ tracksStage = "returned error"
    /\ extracted = <<>>

(***************************************************************************)
(* Specification SpecProcessFile: one call of processFile or ShowFileInfo  *)
(***************************************************************************)

\* The longest track list of a file.
MaxFileTracks == 2

InputPaths == {<<"m", "o", "v", "i", "e", ".", "m", "k", "v">>, <<"M", "O", "V", "I", "E", ".", "M", "K", "V">>, <<"s", "u", "b", "s", ".", "m", "k", "s">>, <<"m", "o", "v", "i", "e", ".", "m", "p", "4">>}

\* What os.Stat finds at the path: nothing, a directory, a regular file, or
\* an error other than "does not exist" (a parent that cannot be searched).
InputStats == {"missing", "directory", "file", "stat error"}

TrackKinds == {"subtitles", "audio"} \X {<<"e", "n", "g">>, <<"s", "r">>}

\* The tracks of a file: track i has id i - 1 and number i.
FileTrackLists ==
    UNION {{[i \in 1..n |-> [Type |-> kinds[i][1], Id |-> i - 1, Number |-> i,
                             Language |-> kinds[i][2], CodecId |-> "S_TEXT/UTF8"]] :
               kinds \in [1..n -> TrackKinds]} : n \in 0..MaxFileTracks}

NoFilter == [LanguageCodes |-> <<>>, TrackNumbers |-> <<>>, FormatFilters |-> <<>>]

\* Filters: none; a language; a language no track has; the 3-letter code of
\* "sr"; a track number; a format with an excluded number; an excluded
\* language; the excluded 3-letter code of "sr".
FileSelections ==
    {[NoFilter EXCEPT !.LanguageCodes = languages, !.TrackNumbers = numbers,
                      !.FormatFilters = formats] @@ [Exclusions |-> exclusions] :
        <<languages, numbers, formats, exclusions>> \in
            {<<<<>>, <<>>, <<>>, NoFilter>>,
             <<<<<<"e", "n", "g">>>>, <<>>, <<>>, NoFilter>>,
             <<<<<<"f", "r", "e">>>>, <<>>, <<>>, NoFilter>>,
             <<<<<<"s", "r", "p">>>>, <<>>, <<>>, NoFilter>>,
             <<<<>>, <<2>>, <<>>, NoFilter>>,
             <<<<>>, <<>>, <<<<"s", "r", "t">>>>, [NoFilter EXCEPT !.TrackNumbers = <<1>>]>>,
             <<<<>>, <<>>, <<>>, [NoFilter EXCEPT !.LanguageCodes = <<<<"e", "n", "g">>>>]>>,
             <<<<>>, <<>>, <<>>, [NoFilter EXCEPT !.LanguageCodes = <<<<"s", "r", "p">>>>]>>}}

InitProcessFile ==
    /\ operation \in {"processFile", "ShowFileInfo"}
    /\ inputPath \in InputPaths
    /\ inputStat \in InputStats
    /\ fileTracks \in FileTrackLists
    /\ fileSelection \in FileSelections
    /\ selectedOriginalTracks = <<>>
    /\ muxedTrackIds = <<>>
    /\ toolCalls = <<>>
    /\ fileStage = "called"
    /\ fileSteps = <<>>
    /\ failedStep = "none"
    /\ fileError = "nil"
    /\ fileJobs = <<>>
    /\ tempFile = "absent"
    /\ IdleLanguage
    /\ IdleFormat
    /\ IdleMatcher
    /\ IdleParser
    /\ IdleTemplate
    /\ IdleOutput
    /\ IdleProcessTracks
    /\ IdleBatch
    /\ IdleGetTrackInfo
    /\ IdleParallel
    /\ IdlePrompt
    /\ IdleRoundTrip
    /\ IdleMux

\* processFile, lines 50-57, and ShowFileInfo, lines 545-553: the check of
\* the input path.
CheckInputFile ==
    /\ fileStage = "called"
    /\ fileStage' = InputCheck(inputPath, inputStat)
    /\ fileSteps' = Append(fileSteps, "validate input")
    /\ failedStep' = IF InputCheck(inputPath, inputStat) = "validated"
                     THEN "none" ELSE "validate input"
    /\ fileError' = InputCheckError(inputPath, inputStat)
    /\ UNCHANGED <<operation, inputPath, inputStat, fileTracks, fileSelection,
                   selectedOriginalTracks, muxedTrackIds, toolCalls, fileJobs, tempFile,
                   languageVars, formatVars, matcherVars, parserVars, templateVars,
                   outputVars, processTracksVars, batchVars, getTrackInfoVars, parallelVars,
                   promptVars, roundTripVars, muxVars>>

\* processFile, lines 60-73, and ShowFileInfo, lines 555-563: mkvmerge -J
\* identifies the file, or fails; ShowFileInfo then displays the tracks and
\* returns, processFile lists the tracks that match the selection.
AnalyseOriginalFile ==
    /\ fileStage = "validated"
    /\ toolCalls' = Append(toolCalls, "identify")
    /\ fileSteps' = Append(fileSteps, "query original tracks")
    /\ \E err \in {"nil"} \cup GetTrackInfoErrors :
          /\ fileError' = err
          /\ IF err # "nil"
             THEN /\ fileStage' = "returned error"
                  /\ failedStep' = "query original tracks"
                  /\ UNCHANGED selectedOriginalTracks
             ELSE IF operation = "ShowFileInfo"
             THEN /\ fileStage' = "returned nil"
                  /\ UNCHANGED <<failedStep, selectedOriginalTracks, roundTripVars, muxVars>>
             ELSE /\ selectedOriginalTracks' \in SelectedTrackLists(fileTracks, fileSelection)
                  /\ fileStage' = "analysed"
                  /\ UNCHANGED failedStep
    /\ UNCHANGED <<operation, inputPath, inputStat, fileTracks, fileSelection, muxedTrackIds,
                   fileJobs, tempFile,
                   languageVars, formatVars, matcherVars, parserVars, templateVars,
                   outputVars, processTracksVars, batchVars, getTrackInfoVars, parallelVars,
                   promptVars, roundTripVars, muxVars>>

\* mkv.CreateSubtitlesMKS as processFile calls it (lines 76-81): mkvmerge -J
\* identifies the file again, the matching subtitle tracks are listed, and
\* unless the list is empty mkvmerge muxes them into the temporary file.  A
\* mux that fails has written nothing or a part of the file; processFile
\* returns its error before the cleanup is deferred.  (The directory and the
\* path of the temporary file are the subject of SpecOutput.)
MuxSelectedTracks ==
    /\ fileStage = "analysed"
    /\ fileSteps' = Append(fileSteps, "filter and mux")
    /\ \E identifyOk \in BOOLEAN :
       \E mux \in {"done", "failed to start", "failed while writing"} :
       \E selected \in SelectedTrackLists(fileTracks, fileSelection) :
          IF ~identifyOk
          THEN /\ toolCalls' = Append(toolCalls, "identify")
               /\ fileStage' = "returned error"
               /\ failedStep' = "filter and mux"
               /\ fileError' = "failed to analyze original file"
               /\ UNCHANGED <<muxedTrackIds, tempFile, roundTripVars, muxVars>>
          ELSE IF selected = <<>>
          THEN /\ toolCalls' = Append(toolCalls, "identify")
               /\ fileStage' = "returned error"
               /\ failedStep' = "filter and mux"
               /\ fileError' = "no subtitle tracks match the specified selection criteria"
               /\ UNCHANGED <<muxedTrackIds, tempFile, roundTripVars, muxVars>>
          ELSE /\ toolCalls' = toolCalls \o <<"identify", "mux">>
               /\ IF mux = "done"
                  THEN /\ muxedTrackIds' = [i \in 1..Len(selected) |-> selected[i].Id]
                       /\ fileStage' = "muxed"
                       /\ tempFile' = "complete"
                       /\ UNCHANGED <<failedStep, fileError, roundTripVars, muxVars>>
                  ELSE /\ UNCHANGED muxedTrackIds
                       /\ fileStage' = "returned error"
                       /\ failedStep' = "filter and mux"
                       /\ fileError' = IF mux = "failed to start"
                                       THEN "failed to start mkvmerge"
                                       ELSE "mkvmerge: exit status"
                       /\ tempFile' = IF mux = "failed to start" THEN "absent" ELSE "partial"
    /\ UNCHANGED <<operation, inputPath, inputStat, fileTracks, fileSelection,
                   selectedOriginalTracks, fileJobs,
                   languageVars, formatVars, matcherVars, parserVars, templateVars,
                   outputVars, processTracksVars, batchVars, getTrackInfoVars, parallelVars,
                   promptVars, roundTripVars, muxVars>>

\* processFile, lines 84-126: mkvmerge -J identifies the temporary file, the
\* jobs are built, and ProcessTracks runs mkvextract; on the return the
\* deferred CleanupTempFile removes the temporary file.
ExtractMuxedTracks ==
    /\ fileStage = "muxed"
    /\ tempFile' = "removed"
    /\ \E err \in {"nil"} \cup GetTrackInfoErrors : \E extractOk \in BOOLEAN :
          IF err # "nil"
          THEN /\ toolCalls' = Append(toolCalls, "identify")
               /\ fileSteps' = Append(fileSteps, "query intermediate file")
               /\ fileStage' = "returned error"
               /\ failedStep' = "query intermediate file"
               /\ fileError' = err
               /\ UNCHANGED fileJobs
          ELSE /\ toolCalls' = toolCalls \o <<"identify", "extract">>
               /\ fileSteps' = fileSteps \o <<"query intermediate file", "extract">>
               /\ fileJobs' = ExtractionJobs(muxedTrackIds, selectedOriginalTracks, fileTracks)
               /\ fileStage' = IF extractOk THEN "returned nil" ELSE "returned error"
               /\ failedStep' = IF extractOk THEN "none" ELSE "extract"
               /\ fileError' = IF extractOk THEN "nil" ELSE "mkvextract: exit status"
    /\ UNCHANGED <<operation, inputPath, inputStat, fileTracks, fileSelection,
                   selectedOriginalTracks, muxedTrackIds,
                   languageVars, formatVars, matcherVars, parserVars, templateVars,
                   outputVars, processTracksVars, batchVars, getTrackInfoVars, parallelVars,
                   promptVars, roundTripVars, muxVars>>

NextProcessFile ==
    \/ CheckInputFile
    \/ AnalyseOriginalFile
    \/ MuxSelectedTracks
    \/ ExtractMuxedTracks

SpecProcessFile == InitProcessFile /\ [][NextProcessFile]_vars

\* A criterion of the filter names the track: its number is listed, its
\* language matches a listed language token, or the format of its codec is
\* a listed format token.
FilterNames(t, filter) ==
    \/ \E i \in 1..Len(filter.TrackNumbers) : filter.TrackNumbers[i] = t.Number
    \/ \E i \in 1..Len(filter.LanguageCodes) :
          LanguageTokenMatches(t.Language, filter.LanguageCodes[i])
    \/ \E i \in 1..Len(filter.FormatFilters) :
          ToLower(filter.FormatFilters[i]) = ToLower(TableExtension(t.CodecId))

\* The track is a subtitle track that the exclusions do not name and that
\* the selection, when it has a criterion, names.
TrackMatchesFilter(t, sel) ==
    /\ t.Type = "subtitles"
    /\ ~FilterNames(t, sel.Exclusions)
    /\ (NoCriteria(sel) \/ FilterNames(t, sel))

Started(tool) == \E i \in 1..Len(toolCalls) : toolCalls[i] = tool

\* C18: when no subtitle track of a valid input file matches the filter,
\* processFile does not return without error, and neither the mux nor the
\* extraction is started.
C18_NoMatchIsFatalBeforeMux ==
    (/\ operation = "processFile"
     /\ inputStat = "file"
     /\ \A i \in 1..Len(fileTracks) : ~TrackMatchesFilter(fileTracks[i], fileSelection))
        => /\ fileStage # "returned nil"
           /\ ~Started("mux")
           /\ ~Started("extract")

\* C20: for an input path that does not exist, is a directory, or has no
\* MKV extension, processFile and ShowFileInfo run no external tool and do
\* not return without error.
C20_InvalidInputIsAnError ==
    (inputStat \in {"missing", "directory"} \/ ~IsMKVFile(inputPath))
        => /\ toolCalls = <<>>
           /\ fileStage \in {"called", "returned error"}

(***************************************************************************)
(* Specification SpecBatch: one batch                                      *)
(***************************************************************************)

\* The longest batch.
MaxBatchFiles == 3

BatchFileNames == {"a.mkv", "b.mkv"}

ErrCodeSuccess == 0

ErrCodeFailure == 1

InitBatch ==
    /\ batchLoop \in {"processBatch", "Processor.Process"}
    /\ \E n \in 0..MaxBatchFiles : mkvFiles \in [1..n -> BatchFileNames]
    /\ fileCalls = <<>>
    /\ batchSuccessCount = 0
    /\ batchErrorCount = 0
    /\ batchStage = "called"
    /\ exitCode = -1
    /\ IdleLanguage
    /\ IdleFormat
    /\ IdleMatcher
    /\ IdleParser
    /\ IdleTemplate
    /\ IdleOutput
    /\ IdleProcessTracks
    /\ IdleProcessFile
    /\ IdleGetTrackInfo
    /\ IdleParallel
    /\ IdlePrompt
    /\ IdleRoundTrip
    /\ IdleMux

\* processBatch, lines 131-178: without MKV files among the matches of the
\* pattern it returns an error and main exits with ErrCodeFailure; otherwise
\* the loop begins.  Processor.Process, lines 221-223, begins its loop over
\* whatever files it was given.
BeginBatch ==
    /\ batchStage = "called"
    /\ IF batchLoop = "processBatch" /\ mkvFiles = <<>>
       THEN batchStage' = "no files found" /\ exitCode' = ErrCodeFailure
       ELSE batchStage' = "looping" /\ UNCHANGED exitCode
    /\ UNCHANGED <<batchLoop, mkvFiles, fileCalls, batchSuccessCount, batchErrorCount,
                   languageVars, formatVars, matcherVars, parserVars, templateVars,
                   outputVars, processTracksVars, processFileVars, getTrackInfoVars, parallelVars, promptVars, roundTripVars, muxVars>>

\* One turn of the loop (main.go:181-197, part_001:225-241): the per-file
\* function is called for the next file and returns an error or nil.
ProcessNextFile ==
    /\ batchStage = "looping"
    /\ Len(fileCalls) < Len(mkvFiles)
    /\ \E failed \in BOOLEAN :
          /\ fileCalls' = Append(fileCalls,
                                 [file |-> mkvFiles[Len(fileCalls) + 1], failed |-> failed])
          /\ IF failed
             THEN batchErrorCount' = batchErrorCount + 1 /\ UNCHANGED batchSuccessCount
             ELSE batchSuccessCount' = batchSuccessCount + 1 /\ UNCHANGED batchErrorCount
    /\ UNCHANGED <<batchLoop, mkvFiles, batchStage, exitCode,
                   languageVars, formatVars, matcherVars, parserVars, templateVars,
                   outputVars, processTracksVars, processFileVars, getTrackInfoVars, parallelVars, promptVars, roundTripVars, muxVars>>

\* After the loop: processBatch prints the summary and returns, and main
\* exits with ErrCodeFailure for an error and ErrCodeSuccess otherwise
\* (main.go:199-212, 530-545); Processor.Process returns the counts and a nil
\* error (part_001:243).
EndBatch ==
    /\ batchStage = "looping"
    /\ Len(fileCalls) = Len(mkvFiles)
    /\ IF batchLoop = "processBatch"
       THEN /\ batchStage' = BatchReturn(batchErrorCount)
            /\ exitCode' = IF BatchReturn(batchErrorCount) = "returned error"
                           THEN ErrCodeFailure ELSE ErrCodeSuccess
       ELSE /\ batchStage' = "returned result"
            /\ UNCHANGED exitCode
    /\ UNCHANGED <<batchLoop, mkvFiles, fileCalls, batchSuccessCount, batchErrorCount,
                   languageVars, formatVars, matcherVars, parserVars, templateVars,
                   outputVars, processTracksVars, processFileVars, getTrackInfoVars, parallelVars, promptVars, roundTripVars, muxVars>>

NextBatch ==
    \/ BeginBatch
    \/ ProcessNextFile
    \/ EndBatch

SpecBatch == InitBatch /\ [][NextBatch]_vars

SomeFileFailed == \E i \in 1..Len(fileCalls) : fileCalls[i].failed

ContainerTypes ==
    {<<"M", "a", "t", "r", "o", "s", "k", "a">>, <<"m", "a", "t", "r", "o", "s", "k", "a">>, <<"M", "A", "T", "R", "O", "S", "K", "A">>, <<" ", "M", "a", "t", "r", "o", "s", "k", "a", " ">>, <<"\t">> \o <<"m", "a", "t", "r", "o", "s", "k", "a">>,
     <<"m", "a", "t", "r", "o", " ", "s", "k", "a">>, <<"m", "a", "t", "r", "o", "s", "k", "a", "2">>, <<"W", "e", "b", "M">>, <<"Q", "u", "i", "c", "k", "T", "i", "m", "e", "/", "M", "P", "4">>, <<>>, <<" ">>}

QueryOutputs ==
    {NotJSON} \cup
    {[IsJSON |-> TRUE, Container |-> [Type |-> type], Tracks |-> tracks] :
        type \in ContainerTypes, tracks \in FileTrackLists}

InitGetTrackInfo ==
    /\ queryFails \in BOOLEAN
    /\ queryOutput \in QueryOutputs
    /\ trackInfoResult = NoResult
    /\ IdleLanguage
    /\ IdleFormat
    /\ IdleMatcher
    /\ IdleParser
    /\ IdleTemplate
    /\ IdleOutput
    /\ IdleProcessTracks
    /\ IdleProcessFile
    /\ IdleBatch
    /\ IdleParallel
    /\ IdlePrompt
    /\ IdleRoundTrip
    /\ IdleMux

CallGetTrackInfo ==
    /\ trackInfoResult = NoResult
    /\ trackInfoResult' = Returned(GetTrackInfo(queryFails, queryOutput))
    /\ UNCHANGED <<queryFails, queryOutput,
                   languageVars, formatVars, matcherVars, parserVars, templateVars,
                   outputVars, processTracksVars, processFileVars, batchVars, parallelVars, promptVars, roundTripVars, muxVars>>

NextGetTrackInfo == CallGetTrackInfo

SpecGetTrackInfo == InitGetTrackInfo /\ [][NextGetTrackInfo]_vars

\* The query succeeded and reported a container type that is "matroska" in
\* some letter case, with white space around it or without.
ReportsMatroska ==
    /\ ~queryFails
    /\ queryOutput.IsJSON
    /\ \E left, right \in 0..Len(queryOutput.Container.Type) :
          LET type == queryOutput.Container.Type
          IN  /\ left + right <= Len(type)
              /\ \A i \in 1..left : type[i] \in WhiteSpace
              /\ \A i \in (Len(type) - right + 1)..Len(type) : type[i] \in WhiteSpace
              /\ SubSeq(type, left + 1, Len(type) - right) \in CaseVariants(Matroska)

\* C21: GetTrackInfo returns the track information of the query, and a nil
\* error, exactly when the query succeeded and the container type it
\* reported is "matroska" up to surrounding white space and letter case; in
\* every other case it returns an error and no track information.
C21_TrackInfoOnlyForMatroska ==
    trackInfoResult # NoResult =>
        LET result == trackInfoResult[1]
        IN  IF ReportsMatroska
            THEN result.mkvInfo = <<queryOutput>> /\ result.err = "nil"
            ELSE result.mkvInfo = <<>> /\ result.err # "nil"

\* A query that reported " Matroska " with tracks, and got them back.
C21_Witness ==
    /\ trackInfoResult # NoResult
    /\ ~queryFails
    /\ queryOutput.IsJSON
    /\ queryOutput.Container.Type = <<" ", "M", "a", "t", "r", "o", "s", "k", "a", " ">>
    /\ queryOutput.Tracks # <<>>
    /\ trackInfoResult[1].err = "nil"
    /\ trackInfoResult[1].mkvInfo = <<queryOutput>>

(***************************************************************************)
(* Specification SpecParallel: one call of ExtractSubtitlesParallel.  The  *)
(* worker goroutines differ only in workerID, which they never read: the   *)
(* model keeps how many of them are at each position.                      *)
(***************************************************************************)

\* The longest job list.
MaxParallelJobs == 5

\* The largest maxWorkers argument.
MaxWorkersArgument == 5

\* Job lists <<1, ..., n>>; the jobs whose extraction fails are none, the
\* first, the last two, or all.
InitParallel ==
    /\ \E n \in 0..MaxParallelJobs :
          /\ parallelJobs = [i \in 1..n |-> i]
          /\ failingJobs \in {{}, {1} \cap (1..n), {n - 1, n} \cap (1..n), 1..n}
          /\ extractions = [i \in 1..n |-> 0]
    /\ maxWorkersArg \in -1..MaxWorkersArgument
    /\ parallelStage = "called"
    /\ maxWorkers = 0
    /\ workersStarted = 0
    /\ jobsSent = 0
    /\ jobChan = <<>>
    /\ jobChanClosed = FALSE
    /\ resultChan = <<>>
    /\ resultChanClosed = FALSE
    /\ waitingWorkers = 0
    /\ extracting = {}
    /\ wg = 0
    /\ closerStarted = FALSE
    /\ results = <<>>
    /\ IdleLanguage
    /\ IdleFormat
    /\ IdleMatcher
    /\ IdleParser
    /\ IdleTemplate
    /\ IdleOutput
    /\ IdleProcessTracks
    /\ IdleProcessFile
    /\ IdleBatch
    /\ IdleGetTrackInfo
    /\ IdlePrompt
    /\ IdleRoundTrip
    /\ IdleMux

\* Lines 28-46: no job, nothing to do; one job, extracted by the caller;
\* otherwise the channels are made and the number of workers is settled.
BeginParallel ==
    /\ parallelStage = "called"
    /\ IF Len(parallelJobs) = 0
       THEN /\ parallelStage' = "returned"
            /\ UNCHANGED <<maxWorkers, extractions, results, promptVars, roundTripVars, muxVars>>
       ELSE IF Len(parallelJobs) = 1
       THEN /\ parallelStage' = "returned"
            /\ extractions' = [extractions EXCEPT ![parallelJobs[1]] = @ + 1]
            /\ results' = <<ExtractionResult(parallelJobs[1], failingJobs)>>
            /\ UNCHANGED maxWorkers
       ELSE /\ parallelStage' = "starting workers"
            /\ maxWorkers' = WorkerCount(Len(parallelJobs), maxWorkersArg)
            /\ UNCHANGED <<extractions, results, promptVars, roundTripVars, muxVars>>
    /\ UNCHANGED <<parallelJobs, maxWorkersArg, failingJobs, workersStarted, jobsSent, jobChan,
                   jobChanClosed, resultChan, resultChanClosed, waitingWorkers, extracting,
                   wg, closerStarted,
                   languageVars, formatVars, matcherVars, parserVars, templateVars,
                   outputVars, processTracksVars, processFileVars, batchVars,
                   getTrackInfoVars, promptVars, roundTripVars, muxVars>>

\* Lines 50-67, one turn: wg.Add(1) and a new worker goroutine, which waits
\* for a job.
StartWorker ==
    /\ parallelStage = "starting workers"
    /\ workersStarted < maxWorkers
    /\ workersStarted' = workersStarted + 1
    /\ wg' = wg + 1
    /\ waitingWorkers' = waitingWorkers + 1
    /\ UNCHANGED <<parallelJobs, maxWorkersArg, failingJobs, parallelStage, maxWorkers,
                   jobsSent, jobChan, jobChanClosed, resultChan, resultChanClosed, extracting,
                   closerStarted, extractions, results,
                   languageVars, formatVars, matcherVars, parserVars, templateVars,
                   outputVars, processTracksVars, processFileVars, batchVars,
                   getTrackInfoVars, promptVars, roundTripVars, muxVars>>

\* Lines 70-72, one turn: the next job is sent to jobChan, whose capacity is
\* the number of jobs.  The first turn follows the last start of a worker.
SendJob ==
    /\ \/ parallelStage = "starting workers" /\ workersStarted = maxWorkers
       \/ parallelStage = "sending"
    /\ jobsSent < Len(parallelJobs)
    /\ Len(jobChan) < Len(parallelJobs)
    /\ parallelStage' = "sending"
    /\ jobsSent' = jobsSent + 1
    /\ jobChan' = Append(jobChan, parallelJobs[jobsSent + 1])
    /\ UNCHANGED <<parallelJobs, maxWorkersArg, failingJobs, maxWorkers, workersStarted,
                   jobChanClosed, resultChan, resultChanClosed, waitingWorkers, extracting,
                   wg, closerStarted, extractions, results,
                   languageVars, formatVars, matcherVars, parserVars, templateVars,
                   outputVars, processTracksVars, processFileVars, batchVars,
                   getTrackInfoVars, promptVars, roundTripVars, muxVars>>

\* Lines 73-79: close(jobChan), and the goroutine that waits for the
\* workers is started.
CloseJobChan ==
    /\ parallelStage = "sending"
    /\ jobsSent = Len(parallelJobs)
    /\ jobChanClosed' = TRUE
    /\ closerStarted' = TRUE
    /\ parallelStage' = "collecting"
    /\ UNCHANGED <<parallelJobs, maxWorkersArg, failingJobs, maxWorkers, workersStarted,
                   jobsSent, jobChan, resultChan, resultChanClosed, waitingWorkers,
                   extracting, wg, extractions, results,
                   languageVars, formatVars, matcherVars, parserVars, templateVars,
                   outputVars, processTracksVars, processFileVars, batchVars,
                   getTrackInfoVars, promptVars, roundTripVars, muxVars>>

\* A worker, line 56: it receives a job from jobChan and calls
\* ExtractSubtitles for it.
WorkerReceive ==
    /\ waitingWorkers > 0
    /\ jobChan # <<>>
    /\ waitingWorkers' = waitingWorkers - 1
    /\ jobChan' = Tail(jobChan)
    /\ extracting' = extracting \cup {Head(jobChan)}
    /\ extractions' = [extractions EXCEPT ![Head(jobChan)] = @ + 1]
    /\ UNCHANGED <<parallelJobs, maxWorkersArg, failingJobs, parallelStage, maxWorkers,
                   workersStarted, jobsSent, jobChanClosed, resultChan, resultChanClosed,
                   wg, closerStarted, results,
                   languageVars, formatVars, matcherVars, parserVars, templateVars,
                   outputVars, processTracksVars, processFileVars, batchVars,
                   getTrackInfoVars, promptVars, roundTripVars, muxVars>>

\* A worker, lines 58-64: ExtractSubtitles has returned and the result is
\* sent to resultChan, whose capacity is the number of jobs; the worker
\* waits for the next job.
WorkerSendResult ==
    /\ \E job \in extracting :
          /\ Len(resultChan) < Len(parallelJobs)
          /\ resultChan' = Append(resultChan, ExtractionResult(job, failingJobs))
          /\ extracting' = extracting \ {job}
    /\ waitingWorkers' = waitingWorkers + 1
    /\ UNCHANGED <<parallelJobs, maxWorkersArg, failingJobs, parallelStage, maxWorkers,
                   workersStarted, jobsSent, jobChan, jobChanClosed, resultChanClosed,
                   wg, closerStarted, extractions, results,
                   languageVars, formatVars, matcherVars, parserVars, templateVars,
                   outputVars, processTracksVars, processFileVars, batchVars,
                   getTrackInfoVars, promptVars, roundTripVars, muxVars>>

\* A worker, lines 53 and 56: jobChan is closed and empty, the range ends
\* and wg.Done() runs.
WorkerReturn ==
    /\ waitingWorkers > 0
    /\ jobChan = <<>>
    /\ jobChanClosed
    /\ waitingWorkers' = waitingWorkers - 1
    /\ wg' = wg - 1
    /\ UNCHANGED <<parallelJobs, maxWorkersArg, failingJobs, parallelStage, maxWorkers,
                   workersStarted, jobsSent, jobChan, jobChanClosed, resultChan,
                   resultChanClosed, extracting, closerStarted, extractions, results,
                   languageVars, formatVars, matcherVars, parserVars, templateVars,
                   outputVars, processTracksVars, processFileVars, batchVars,
                   getTrackInfoVars, promptVars, roundTripVars, muxVars>>

\* The closing goroutine, lines 76-79: wg.Wait() has returned and resultChan
\* is closed.
CloseResultChan ==
    /\ closerStarted
    /\ ~resultChanClosed
    /\ wg = 0
    /\ resultChanClosed' = TRUE
    /\ UNCHANGED <<parallelJobs, maxWorkersArg, failingJobs, parallelStage, maxWorkers,
                   workersStarted, jobsSent, jobChan, jobChanClosed, resultChan,
                   waitingWorkers, extracting, wg, closerStarted, extractions, results,
                   languageVars, formatVars, matcherVars, parserVars, templateVars,
                   outputVars, processTracksVars, processFileVars, batchVars,
                   getTrackInfoVars, promptVars, roundTripVars, muxVars>>

\* Lines 82-85, one turn: a result is received and appended.
CollectResult ==
    /\ parallelStage = "collecting"
    /\ resultChan # <<>>
    /\ results' = Collect(results, Head(resultChan))
    /\ resultChan' = Tail(resultChan)
    /\ UNCHANGED <<parallelJobs, maxWorkersArg, failingJobs, parallelStage, maxWorkers,
                   workersStarted, jobsSent, jobChan, jobChanClosed, resultChanClosed,
                   waitingWorkers, extracting, wg, closerStarted, extractions,
                   languageVars, formatVars, matcherVars, parserVars, templateVars,
                   outputVars, processTracksVars, processFileVars, batchVars,
                   getTrackInfoVars, promptVars, roundTripVars, muxVars>>

\* Lines 83 and 87: resultChan is closed and empty, the range ends and the
\* results are returned.
ReturnResults ==
    /\ parallelStage = "collecting"
    /\ resultChan = <<>>
    /\ resultChanClosed
    /\ parallelStage' = "returned"
    /\ UNCHANGED <<parallelJobs, maxWorkersArg, failingJobs, maxWorkers, workersStarted,
                   jobsSent, jobChan, jobChanClosed, resultChan, resultChanClosed,
                   waitingWorkers, extracting, wg, closerStarted, extractions, results,
                   languageVars, formatVars, matcherVars, parserVars, templateVars,
                   outputVars, processTracksVars, processFileVars, batchVars,
                   getTrackInfoVars, promptVars, roundTripVars, muxVars>>

NextParallel ==
    \/ BeginParallel
    \/ StartWorker
    \/ SendJob
    \/ CloseJobChan
    \/ WorkerReceive
    \/ WorkerSendResult
    \/ WorkerReturn
    \/ CloseResultChan
    \/ CollectResult
    \/ ReturnResults

SpecParallel == InitParallel /\ [][NextParallel]_vars

\* The Go scheduler runs every goroutine that can take a step, and every
\* mkvextract process ends.
SpecParallelFair ==
    /\ SpecParallel
    /\ WF_vars(BeginParallel)
    /\ WF_vars(StartWorker)
    /\ WF_vars(SendJob)
    /\ WF_vars(CloseJobChan)
    /\ WF_vars(WorkerReceive)
    /\ WF_vars(WorkerSendResult)
    /\ WF_vars(WorkerReturn)
    /\ WF_vars(CloseResultChan)
    /\ WF_vars(CollectResult)
    /\ WF_vars(ReturnResults)

\* The worker goroutines that have been started and have not returned.
LiveWorkers == waitingWorkers + Cardinality(extracting)

ResultsOfJob(job) == {i \in 1..Len(results) : results[i].Job = job}

\* The call has returned one result for every job, every job was extracted
\* once, its result tells whether its extraction failed, and no goroutine
\* of the call is left.
ReturnedOneResultPerJob ==
    /\ parallelStage = "returned"
    /\ Len(results) = Len(parallelJobs)
    /\ \A i \in 1..Len(parallelJobs) :
          /\ Cardinality(ResultsOfJob(parallelJobs[i])) = 1
          /\ extractions[parallelJobs[i]] = 1
          /\ \A r \in ResultsOfJob(parallelJobs[i]) :
                results[r].Failed <=> parallelJobs[i] \in failingJobs
    /\ LiveWorkers = 0
    /\ closerStarted => resultChanClosed

\* C22: every call of ExtractSubtitlesParallel returns, with exactly one
\* result per job, every job having been extracted exactly once, whichever
\* jobs fail and whatever maxWorkers is; and no job is ever extracted twice
\* on the way.
C22_ReturnsOneResultPerJob ==
    /\ [](\A i \in 1..Len(parallelJobs) : extractions[parallelJobs[i]] <= 1)
    /\ [](parallelStage = "returned" => ReturnedOneResultPerJob)
    /\ <>(parallelStage = "returned")

\* Five jobs, three workers, the first job failing: returned with the five
\* results.
C22_Witness ==
    /\ Len(parallelJobs) = 5
    /\ maxWorkersArg = 3
    /\ maxWorkers = 3
    /\ failingJobs = {1}
    /\ ReturnedOneResultPerJob
    /\ \E i \in 1..5 : results[i].Failed

\* C23: at no time are more than 4 worker goroutines alive, and a call with
\* one job starts no worker.
C23_AtMostFourWorkers ==
    /\ LiveWorkers <= 4
    /\ Cardinality(extracting) <= 4
    /\ Len(parallelJobs) = 1 => workersStarted = 0 /\ LiveWorkers = 0

(***************************************************************************)
(* Specification SpecPrompt: one call of ProcessSelectionAndExclusion      *)
(***************************************************************************)

\* The most answers the user gives in one call.
MaxPrompts == 4

\* What the user types: nothing, a language, an available track, a track
\* the file does not have, a format, a valid item followed by an unknown
\* one, an unknown one followed by a valid one, two valid items.
PromptInputs ==
    {<<>>, <<"e", "n", "g">>, <<"1">>, <<"9">>, <<"s", "r", "t">>, <<"e", "n", "g", ",", "x", "x">>, <<"x", "x", ",", "2">>, <<"f", "r", ",", "2">>}

InitPrompt ==
    /\ extractAll \in BOOLEAN
    /\ promptTracks \in {AvailableTracks(1), AvailableTracks(2)}
    /\ promptStage = "called"
    /\ prompts = <<>>
    /\ promptResult = EmptySelectionResult
    /\ IdleLanguage
    /\ IdleFormat
    /\ IdleMatcher
    /\ IdleParser
    /\ IdleTemplate
    /\ IdleOutput
    /\ IdleProcessTracks
    /\ IdleProcessFile
    /\ IdleBatch
    /\ IdleGetTrackInfo
    /\ IdleParallel
    /\ IdleRoundTrip
    /\ IdleMux

\* Lines 23-25 and 104-108: with extractAll nothing is asked.
BeginPrompt ==
    /\ promptStage = "called"
    /\ promptStage' = IF extractAll THEN "returned" ELSE "asking selection"
    /\ UNCHANGED <<extractAll, promptTracks, prompts, promptResult,
                   languageVars, formatVars, matcherVars, parserVars, templateVars,
                   outputVars, processTracksVars, processFileVars, batchVars,
                   getTrackInfoVars, parallelVars, roundTripVars, muxVars>>

\* Lines 29-43, one turn: the selection is asked for and parsed into
\* result.Selection; with invalid items the loop goes on.
AnswerSelection ==
    /\ promptStage = "asking selection"
    /\ Len(prompts) < MaxPrompts
    /\ \E answer \in PromptInputs :
          LET parse == ParseTrackSelectionWithValidation(answer, promptTracks)
          IN  /\ prompts' = Append(prompts, [ask |-> "selection", input |-> answer,
                                             invalidItems |-> parse.reported])
              /\ promptResult' = [promptResult EXCEPT !.Selection = FiltersOf(parse),
                                                       !.Exclusions = NoFilters]
              /\ promptStage' = IF AskAgain(parse.reported)
                                THEN "asking selection" ELSE "asking exclusion"
    /\ UNCHANGED <<extractAll, promptTracks,
                   languageVars, formatVars, matcherVars, parserVars, templateVars,
                   outputVars, processTracksVars, processFileVars, batchVars,
                   getTrackInfoVars, parallelVars, roundTripVars, muxVars>>

\* Lines 50-74 and 80-98, one turn: the exclusion is asked for; an empty
\* answer ends the loop, another answer is parsed and either rejected or
\* stored.  After the loop the selection, when it is not empty, is turned
\* into the filter string (lines 100-101) and the result is returned.
AnswerExclusion ==
    /\ promptStage = "asking exclusion"
    /\ Len(prompts) < MaxPrompts
    /\ \E answer \in PromptInputs :
          LET parse == ParseTrackExclusionWithValidation(answer, promptTracks)
              selected == promptResult.Selection # NoFilters
              stored == IF answer # <<>>
                        THEN [promptResult EXCEPT
                                 !.Exclusions = FiltersOf(parse),
                                 !.ExclusionFilter = convertExclusionToString(FiltersOf(parse))]
                        ELSE promptResult
          IN  /\ prompts' = Append(prompts,
                                   [ask |-> "exclusion", input |-> answer,
                                    invalidItems |-> IF answer # <<>> THEN parse.reported
                                                     ELSE <<>>])
              /\ IF answer # <<>> /\ AskAgain(parse.reported)
                 THEN /\ promptStage' = "asking exclusion"
                      /\ UNCHANGED promptResult
                 ELSE /\ promptStage' = "returned"
                      /\ promptResult' =
                            IF selected
                            THEN [stored EXCEPT !.LanguageFilter =
                                                    convertSelectionToString(stored.Selection)]
                            ELSE stored
    /\ UNCHANGED <<extractAll, promptTracks,
                   languageVars, formatVars, matcherVars, parserVars, templateVars,
                   outputVars, processTracksVars, processFileVars, batchVars,
                   getTrackInfoVars, parallelVars, roundTripVars, muxVars>>

NextPrompt ==
    \/ BeginPrompt
    \/ AnswerSelection
    \/ AnswerExclusion

SpecPrompt == InitPrompt /\ [][NextPrompt]_vars

PromptsOf(kind) == {i \in 1..Len(prompts) : prompts[i].ask = kind}

LastPromptOf(kind) == CHOOSE i \in PromptsOf(kind) : \A j \in PromptsOf(kind) : j <= i

\* The filters the items of an answer stand for, when every item is valid.
AnswerFilters(answer, available) ==
    FiltersOf(ParseTrackSelectionWithValidation(answer, available))

\* C24: the selection questions come first and the exclusion questions
\* after them; every answer but the last of its kind had an invalid item
\* and was followed by the same question; once the call has returned
\* (extractAll being false), the last selection answer had no invalid item
\* and the returned selection holds the filters of that answer alone, and
\* the returned exclusion holds the filters of the last exclusion answer
\* alone, which had no invalid item.
C24_ReturnsFiltersOfOneValidInput ==
    /\ \A i \in 1..Len(prompts) :
          /\ i < Len(prompts) /\ prompts[i + 1].ask = prompts[i].ask
                => prompts[i].invalidItems # <<>>
          /\ i < Len(prompts) /\ prompts[i + 1].ask # prompts[i].ask
                => /\ prompts[i].ask = "selection"
                   /\ prompts[i].invalidItems = <<>>
          /\ i = Len(prompts) /\ prompts[i].invalidItems # <<>>
                => promptStage = "asking " \o prompts[i].ask
    /\ extractAll => prompts = <<>>
    /\ promptStage = "returned" /\ ~extractAll =>
          /\ PromptsOf("selection") # {}
          /\ PromptsOf("exclusion") # {}
          /\ LET lastSelection == prompts[LastPromptOf("selection")]
                 lastExclusion == prompts[LastPromptOf("exclusion")]
             IN  /\ lastSelection.invalidItems = <<>>
                 /\ lastExclusion.invalidItems = <<>>
                 /\ promptResult.Selection = AnswerFilters(lastSelection.input, promptTracks)
                 /\ promptResult.Exclusions = AnswerFilters(lastExclusion.input, promptTracks)

\* The selection "eng,xx" was rejected and "1" taken, then the exclusion
\* "xx,2" was rejected and "srt" taken: only "1" and "srt" are returned.
C24_Witness ==
    /\ promptStage = "returned"
    /\ Len(prompts) = 4
    /\ prompts[1].input = <<"e", "n", "g", ",", "x", "x">>
    /\ prompts[2].input = <<"1">>
    /\ prompts[3].input = <<"x", "x", ",", "2">>
    /\ prompts[4].input = <<"s", "r", "t">>
    /\ promptResult.Selection = [NoFilters EXCEPT !.TrackNumbers = <<1>>]
    /\ promptResult.Exclusions = [NoFilters EXCEPT !.FormatFilters = <<<<"s", "r", "t">>>>]
    /\ promptResult.LanguageFilter = <<"1">>
    /\ promptResult.ExclusionFilter = <<"s", "r", "t">>

(***************************************************************************)
(* processFile: the order of its steps, its jobs and its temporary file    *)
(***************************************************************************)

ProcessFileSteps ==
    <<"validate input", "query original tracks", "filter and mux",
      "query intermediate file", "extract">>

\* C25: processFile begins its steps in the fixed order; a step that fails
\* is the last one begun, processFile has then returned, and what it
\* returned is an error; without a failed step it returns nil, and only
\* after all five steps.
C25_StepsInOrderFirstErrorReturned ==
    operation = "processFile" =>
        /\ fileSteps = SubSeq(ProcessFileSteps, 1, Len(fileSteps))
        /\ failedStep # "none" =>
              /\ fileSteps # <<>>
              /\ failedStep = fileSteps[Len(fileSteps)]
              /\ fileStage = "returned error"
              /\ fileError # "nil"
        /\ failedStep = "none" =>
              /\ fileError = "nil"
              /\ fileStage # "returned error"
              /\ fileStage = "returned nil" => fileSteps = ProcessFileSteps

\* The tracks of the file that match the filter, in file order.
MatchedTracks ==
    LET Matches(t) == TrackMatchesFilter(t, fileSelection)
    IN  SelectSeq(fileTracks, Matches)

\* C27: once the jobs are built there is one job for each matched track of
\* the original file, in order: the k-th job extracts the temporary file's
\* track with id k - 1, which holds the k-th matched track, and is named
\* after that track, original number included.
C27_JobsAreTheMatchedTracks ==
    (operation = "processFile" /\ Started("extract")) =>
        /\ Len(fileJobs) = Len(MatchedTracks)
        /\ \A k \in 1..Len(fileJobs) :
              /\ k <= Len(MatchedTracks)
              /\ fileJobs[k].Track.Id = k - 1
              /\ fileJobs[k].Source = MatchedTracks[k].Id
              /\ fileJobs[k].OriginalTrack = MatchedTracks[k]

\* C29: after processFile has returned, the temporary file does not exist.
C29_TemporaryFileIsRemoved ==
    (operation = "processFile" /\ fileStage \in {"returned nil", "returned error"})
        => tempFile \in {"absent", "removed"}

(***************************************************************************)
(* The language table as a one-to-one mapping                              *)
(***************************************************************************)

\* C26: no two 2-letter codes of LanguageCodeMapping have the same 3-letter
\* code, so that for the filter of a call the reverse lookup finds at most
\* one 2-letter code and the call has one possible result.
C26_TableIsOneToOne ==
    langResult # NoResult =>
        /\ \A first, second \in DOMAIN LanguageCodeMapping :
              LanguageCodeMapping[first] = LanguageCodeMapping[second] => first = second
        /\ Cardinality(ReverseLookup(filterLanguage)) <= 1
        /\ Cardinality(MatchesLanguageFilter(trackLanguage, filterLanguage)) = 1

(***************************************************************************)
(* Specification SpecRoundTrip: a filter is parsed, converted to the       *)
(* string handed to processFile, and parsed again there                    *)
(***************************************************************************)

\* The items of a typed filter: languages in two lengths and letter cases,
\* track numbers plain, signed, padded and negative, formats in two letter
\* cases, an unknown word, an empty and a blank item.
TypedItems ==
    {<<"e", "n", "g">>, <<"F", "R">>, <<"s", "r">>, <<"2">>, <<"+", "1">>, <<"0", "0", "7">>, <<"-", "3">>, <<" ", "1", " ">>,
     <<"s", "r", "t">>, <<"A", "S", "S">>, <<"x", "x">>, <<>>, <<" ">>}

Parsers ==
    {"ParseTrackSelection", "ParseTrackExclusion",
     "ParseTrackSelectionWithValidation", "ParseTrackExclusionWithValidation"}

InitRoundTrip ==
    /\ \E n \in 0..MaxItems : \E items \in [1..n -> TypedItems] :
          typedInput = Join(items, <<",">>)
    /\ typedTracks \in {AvailableTracks(1), AvailableTracks(7)}
    /\ usedParser \in Parsers
    /\ confirmedFilter = NoFilters
    /\ filterString = <<>>
    /\ appliedFilter = NoFilters
    /\ roundTripStage = "typed"
    /\ IdleLanguage
    /\ IdleFormat
    /\ IdleMatcher
    /\ IdleParser
    /\ IdleTemplate
    /\ IdleOutput
    /\ IdleProcessTracks
    /\ IdleProcessFile
    /\ IdleBatch
    /\ IdleGetTrackInfo
    /\ IdleParallel
    /\ IdlePrompt
    /\ IdleMux

\* The input is parsed (cli.go:117-243, part_006:222-378).
ParseTypedInput ==
    /\ roundTripStage = "typed"
    /\ confirmedFilter' = ParsedBy(usedParser, typedInput, typedTracks)
    /\ roundTripStage' = "parsed"
    /\ UNCHANGED <<typedInput, typedTracks, usedParser, filterString, appliedFilter,
                   languageVars, formatVars, matcherVars, parserVars, templateVars,
                   outputVars, processTracksVars, processFileVars, batchVars,
                   getTrackInfoVars, parallelVars, promptVars, muxVars>>

\* convertSelectionToString or convertExclusionToString builds the string
\* for processFile (part_006:66, 95, 100).
ConvertFilterToString ==
    /\ roundTripStage = "parsed"
    /\ filterString' = IF IsExclusionParser(usedParser)
                       THEN convertExclusionToString(confirmedFilter)
                       ELSE convertSelectionToString(confirmedFilter)
    /\ roundTripStage' = "converted"
    /\ UNCHANGED <<typedInput, typedTracks, usedParser, confirmedFilter, appliedFilter,
                   languageVars, formatVars, matcherVars, parserVars, templateVars,
                   outputVars, processTracksVars, processFileVars, batchVars,
                   getTrackInfoVars, parallelVars, promptVars, muxVars>>

\* processFile parses the string again (main.go:27-29), a selection with
\* ParseTrackSelection and an exclusion with ParseTrackExclusion.
ParseFilterString ==
    /\ roundTripStage = "converted"
    /\ appliedFilter' = IF IsExclusionParser(usedParser)
                        THEN FiltersOf(ParseTrackExclusion(filterString))
                        ELSE FiltersOf(ParseTrackSelection(filterString))
    /\ roundTripStage' = "applied"
    /\ UNCHANGED <<typedInput, typedTracks, usedParser, confirmedFilter, filterString,
                   languageVars, formatVars, matcherVars, parserVars, templateVars,
                   outputVars, processTracksVars, processFileVars, batchVars,
                   getTrackInfoVars, parallelVars, promptVars, muxVars>>

NextRoundTrip ==
    \/ ParseTypedInput
    \/ ConvertFilterToString
    \/ ParseFilterString

SpecRoundTrip == InitRoundTrip /\ [][NextRoundTrip]_vars

\* C30: the filter parsed from the string built from a parser's filter has
\* the same language codes, track numbers and format filters, each list
\* with the same elements in the same order.
C30_StringRoundTripKeepsFilter ==
    roundTripStage = "applied" =>
        /\ appliedFilter.LanguageCodes = confirmedFilter.LanguageCodes
        /\ appliedFilter.TrackNumbers = confirmedFilter.TrackNumbers
        /\ appliedFilter.FormatFilters = confirmedFilter.FormatFilters

\* "ASS,+1" typed as a selection of a file with track 1: the filter has
\* the number 1 and the format "ass", the string is "1,ass", and the filter
\* parsed from it is the same.
C30_Witness ==
    /\ roundTripStage = "applied"
    /\ usedParser = "ParseTrackSelectionWithValidation"
    /\ typedInput = <<"A", "S", "S", ",", "+", "1">>
    /\ confirmedFilter = [NoFilters EXCEPT !.TrackNumbers = <<1>>,
                                           !.FormatFilters = <<<<"a", "s", "s">>>>]
    /\ filterString = <<"1", ",", "a", "s", "s">>
    /\ appliedFilter = confirmedFilter

(***************************************************************************)
(* Specification SpecMux: the mkvmerge process of CreateSubtitlesMKS and   *)
(* the goroutines around it (mkv.go:236-322)                               *)
(***************************************************************************)

\* The most lines the process writes to stderr.
MaxStderrLines == 3

\* After cmd.Start() and the two `go` statements (lines 250-288): the
\* process runs, the reader scans stderr, the ticker goroutine selects, and
\* the caller scans stdout.
InitMux ==
    /\ stderrToWrite \in 0..MaxStderrLines
    /\ stderrWritten = <<>>
    /\ processState = "running"
    /\ stderrPipe = <<>>
    /\ stderrPipeClosed = FALSE
    /\ stderrOutput = <<>>
    /\ stderrReader = "scanning"
    /\ tickerGoroutine = "selecting"
    /\ muxStage = "scanning stdout"
    /\ reportedStderr = NoResult
    /\ IdleLanguage
    /\ IdleFormat
    /\ IdleMatcher
    /\ IdleParser
    /\ IdleTemplate
    /\ IdleOutput
    /\ IdleProcessTracks
    /\ IdleProcessFile
    /\ IdleBatch
    /\ IdleGetTrackInfo
    /\ IdleParallel
    /\ IdlePrompt
    /\ IdleRoundTrip

\* mkvmerge writes its next line to stderr.
ProcessWritesStderr ==
    /\ processState = "running"
    /\ Len(stderrWritten) < stderrToWrite
    /\ stderrWritten' = Append(stderrWritten, Len(stderrWritten) + 1)
    /\ stderrPipe' = Append(stderrPipe, Len(stderrWritten) + 1)
    /\ UNCHANGED <<stderrToWrite, processState, stderrPipeClosed, stderrOutput, stderrReader,
                   tickerGoroutine, muxStage, reportedStderr,
                   languageVars, formatVars, matcherVars, parserVars, templateVars,
                   outputVars, processTracksVars, processFileVars, batchVars,
                   getTrackInfoVars, parallelVars, promptVars, roundTripVars>>

\* mkvmerge exits, with status 0 or with an error, having written its lines;
\* its ends of the pipes are closed.
ProcessExits ==
    /\ processState = "running"
    /\ Len(stderrWritten) = stderrToWrite
    /\ processState' \in {"exited", "exited with error"}
    /\ UNCHANGED <<stderrToWrite, stderrWritten, stderrPipe, stderrPipeClosed, stderrOutput,
                   stderrReader, tickerGoroutine, muxStage, reportedStderr,
                   languageVars, formatVars, matcherVars, parserVars, templateVars,
                   outputVars, processTracksVars, processFileVars, batchVars,
                   getTrackInfoVars, parallelVars, promptVars, roundTripVars>>

\* The stderr goroutine, lines 262-264: scanner.Scan() returns a line, which
\* is written to stderrOutput.
ReaderScansLine ==
    /\ stderrReader = "scanning"
    /\ ~stderrPipeClosed
    /\ stderrPipe # <<>>
    /\ stderrOutput' = Append(stderrOutput, Head(stderrPipe))
    /\ stderrPipe' = Tail(stderrPipe)
    /\ UNCHANGED <<stderrToWrite, stderrWritten, processState, stderrPipeClosed, stderrReader,
                   tickerGoroutine, muxStage, reportedStderr,
                   languageVars, formatVars, matcherVars, parserVars, templateVars,
                   outputVars, processTracksVars, processFileVars, batchVars,
                   getTrackInfoVars, parallelVars, promptVars, roundTripVars>>

\* The stderr goroutine ends: scanner.Scan() returns false at the end of the
\* stream, or because cmd.Wait() has closed the pipe under it.
ReaderEnds ==
    /\ stderrReader = "scanning"
    /\ \/ stderrPipeClosed
       \/ stderrPipe = <<>> /\ processState # "running"
    /\ stderrReader' = "ended"
    /\ UNCHANGED <<stderrToWrite, stderrWritten, processState, stderrPipe, stderrPipeClosed,
                   stderrOutput, tickerGoroutine, muxStage, reportedStderr,
                   languageVars, formatVars, matcherVars, parserVars, templateVars,
                   outputVars, processTracksVars, processFileVars, batchVars,
                   getTrackInfoVars, parallelVars, promptVars, roundTripVars>>

\* The ticker goroutine, lines 281-282: the ticker fires and
\* util.UpdateElapsedTime() runs.
TickerFires ==
    /\ tickerGoroutine = "selecting"
    /\ tickerGoroutine' = "updating"
    /\ UNCHANGED <<stderrToWrite, stderrWritten, processState, stderrPipe, stderrPipeClosed,
                   stderrOutput, stderrReader, muxStage, reportedStderr,
                   languageVars, formatVars, matcherVars, parserVars, templateVars,
                   outputVars, processTracksVars, processFileVars, batchVars,
                   getTrackInfoVars, parallelVars, promptVars, roundTripVars>>

\* The ticker goroutine is back at its select.
TickerSelects ==
    /\ tickerGoroutine = "updating"
    /\ tickerGoroutine' = "selecting"
    /\ UNCHANGED <<stderrToWrite, stderrWritten, processState, stderrPipe, stderrPipeClosed,
                   stderrOutput, stderrReader, muxStage, reportedStderr,
                   languageVars, formatVars, matcherVars, parserVars, templateVars,
                   outputVars, processTracksVars, processFileVars, batchVars,
                   getTrackInfoVars, parallelVars, promptVars, roundTripVars>>

\* The caller, lines 296-302: stdout has ended with the process and the
\* scanning loop is left.
StdoutEnds ==
    /\ muxStage = "scanning stdout"
    /\ processState # "running"
    /\ muxStage' = "stopping ticker"
    /\ UNCHANGED <<stderrToWrite, stderrWritten, processState, stderrPipe, stderrPipeClosed,
                   stderrOutput, stderrReader, tickerGoroutine, reportedStderr,
                   languageVars, formatVars, matcherVars, parserVars, templateVars,
                   outputVars, processTracksVars, processFileVars, batchVars,
                   getTrackInfoVars, parallelVars, promptVars, roundTripVars>>

\* Lines 305 and 283-285: `done <- true` meets the `case <-done` of the
\* ticker goroutine, which stops the ticker and returns.
StopTicker ==
    /\ muxStage = "stopping ticker"
    /\ tickerGoroutine = "selecting"
    /\ tickerGoroutine' = "stopped"
    /\ muxStage' = "waiting"
    /\ UNCHANGED <<stderrToWrite, stderrWritten, processState, stderrPipe, stderrPipeClosed,
                   stderrOutput, stderrReader, reportedStderr,
                   languageVars, formatVars, matcherVars, parserVars, templateVars,
                   outputVars, processTracksVars, processFileVars, batchVars,
                   getTrackInfoVars, parallelVars, promptVars, roundTripVars>>

\* Lines 306-322: cmd.Wait() sees the exit and closes the pipes, whatever is
\* still unread in them; after an error stderrOutput.String() is printed
\* with the error.  Nothing orders this read after the writes of the stderr
\* goroutine: while that goroutine runs, the read sees some of the lines
\* written so far.
WaitAndReport ==
    /\ muxStage = "waiting"
    /\ processState # "running"
    /\ stderrPipeClosed' = TRUE
    /\ IF processState = "exited"
       THEN /\ muxStage' = "returned nil"
            /\ UNCHANGED reportedStderr
       ELSE /\ muxStage' = "returned error"
            /\ \E seen \in 0..Len(stderrOutput) :
                  /\ stderrReader = "ended" => seen = Len(stderrOutput)
                  /\ reportedStderr' = Returned(SubSeq(stderrOutput, 1, seen))
    /\ UNCHANGED <<stderrToWrite, stderrWritten, processState, stderrPipe, stderrOutput,
                   stderrReader, tickerGoroutine,
                   languageVars, formatVars, matcherVars, parserVars, templateVars,
                   outputVars, processTracksVars, processFileVars, batchVars,
                   getTrackInfoVars, parallelVars, promptVars, roundTripVars>>

NextMux ==
    \/ ProcessWritesStderr
    \/ ProcessExits
    \/ ReaderScansLine
    \/ ReaderEnds
    \/ TickerFires
    \/ TickerSelects
    \/ StdoutEnds
    \/ StopTicker
    \/ WaitAndReport

SpecMux == InitMux /\ [][NextMux]_vars

\* C28: when CreateSubtitlesMKS has returned the error of the mux process,
\* the stderr goroutine had ended before the captured text was read, the
\* text reported holds every line the process wrote to stderr, and the
\* ticker goroutine has stopped.
C28_FailedMuxReportsAllOfStderr ==
    muxStage = "returned error" =>
        /\ reportedStderr = Returned(stderrWritten)
        /\ stderrPipe = <<>>
        /\ tickerGoroutine = "stopped"

====
